---- MODULE Spec2Model ----
(***************************************************************************)
(* A model of the platform abstraction layer of halilagin/pagents: the     *)
(* three adapters (TwitterPlatform, InstagramPlatform, LinkedInPlatform),  *)
(* the error translation of SocialPlatform.handleError, and the callers    *)
(* that fan one request out to several adapters (handlePost, the feed      *)
(* watcher's displayFeed and the viewer's loadAllFeeds).                   *)
(*                                                                         *)
(* Spec          one adapter, any sequence of contract operations on it,   *)
(*               each against any vendor behaviour.                        *)
(* SpecDispatch  one run of a multi-platform caller, step by step.         *)
(***************************************************************************)
EXTENDS Integers, Sequences, FiniteSets, TLC

VARIABLES adapter, authSucceeded, last, run

vars == <<adapter, authSucceeded, last, run>>

(***************************************************************************)
(* Bounds of the model.                                                    *)
(***************************************************************************)
\* the vendor returns at most this many items in one feed or search page
MaxItems == 1
\* a multi-platform request names at most this many platforms
MaxPlatforms == 2

(***************************************************************************)
(* JavaScript values.  A field that may hold a number, a string or nothing *)
(* is a record, so that === is record equality and never compares a number *)
(* with a string.                                                          *)
(***************************************************************************)
Undefined == [ty |-> "undefined", n |-> 0, s |-> ""]

JsNum(n) == [ty |-> "number", n |-> n, s |-> ""]

JsStr(s) == [ty |-> "string", n |-> 0, s |-> s]

\* JavaScript truthiness of a number, a string or undefined
Truthy(v) ==
  /\ v.ty # "undefined"
  /\ ~(v.ty = "number" /\ v.n = 0)
  /\ ~(v.ty = "string" /\ v.s = "")

\* a || b
JsOr(a, b) == IF Truthy(a) THEN a ELSE b

(***************************************************************************)
(* src/types/index.ts                                                      *)
(***************************************************************************)
Platform == {"twitter", "instagram", "linkedin"}

EngagementAction == {"like", "comment", "share", "retweet", "reply"}

(***************************************************************************)
(* Time.  Date.now() is read in milliseconds; the vendor's rateLimit.reset *)
(* is in seconds.                                                          *)
(***************************************************************************)
Times == {1000 * 1000, 1000 * 1000 + 500}

FifteenMinutes == 15 * 60 * 1000

\* Date.prototype.toLocaleTimeString: the time of day, the date dropped
toLocaleTimeString(ms) == ToString((ms \div 1000) % (24 * 60 * 60))

(***************************************************************************)
(* Error objects.  One record shape holds every field handleError reads    *)
(* (code, statusCode, rateLimit.reset, data.title, data.detail,            *)
(* data.errors[0].message, message), the field axios sets                  *)
(* (response.status) and the fields createError writes (platform,          *)
(* statusCode, rateLimitReset).  `built` records who made the object.      *)
(* A message is the sequence of its words.                                 *)
(***************************************************************************)
RawError(message, code) ==
  [built |-> "vendor", platform |-> Undefined, message |-> message,
   code |-> code, statusCode |-> Undefined, rateLimitReset |-> Undefined,
   rateLimit_reset |-> Undefined, data_title |-> Undefined,
   data_detail |-> Undefined, data_errors0 |-> Undefined,
   response_status |-> Undefined]

\* createError without the assignment error.statusCode = statusCode
createError_withoutStatus(platform, message, statusCode, rateLimitReset) ==
  [built |-> "createError", platform |-> JsStr(platform), message |-> message,
   code |-> Undefined, statusCode |-> Undefined,
   rateLimitReset |-> rateLimitReset,
   rateLimit_reset |-> Undefined, data_title |-> Undefined,
   data_detail |-> Undefined, data_errors0 |-> Undefined,
   response_status |-> Undefined]

\* SocialPlatform.createError
createError(platform, message, statusCode, rateLimitReset) ==
  [built |-> "createError", platform |-> JsStr(platform), message |-> message,
   code |-> Undefined, statusCode |-> statusCode,
   rateLimitReset |-> rateLimitReset,
   rateLimit_reset |-> Undefined, data_title |-> Undefined,
   data_detail |-> Undefined, data_errors0 |-> Undefined,
   response_status |-> Undefined]

MsgRateLimit(platform, reset) ==
  <<"Rate", "limit", "exceeded", "for", platform, ".", "Try", "again",
    "after", toLocaleTimeString(reset)>>

MsgAuthFailed(platform) ==
  <<"Authentication", "failed", "for", platform, ".", "Please", "check",
    "your", "credentials", ".">>

MsgPermissionDenied(platform, errorDetail) ==
  <<"Permission", "denied", "for", platform, ".", errorDetail, "\n",
    "Your", "Twitter", "app", "may", "not", "have", "write", "permissions",
    ".", "To", "fix", ":", "\n",
    "1.", "Go", "to", "https://developer.twitter.com/en/portal/projects", "\n",
    "2.", "Select", "your", "app", "->", "User authentication settings",
    "\n",
    "3.", "Set", "App", "permissions", "to", "Read and write", "\n",
    "4.", "Regenerate", "your", "Access", "Token", "and", "Secret", "after",
    "changing", "permissions">>

MsgCreditsDepleted ==
  <<"Twitter", "API", "credits", "depleted", ".", "Your", "account", "has",
    "no", "remaining", "credits", "for", "this", "month", ".",
    "Visit", "developer.twitter.com", "to", "purchase", "more", "credits",
    "or", "upgrade", "your", "API", "tier", ",",
    "or", "wait", "for", "your", "monthly", "credits", "to", "reset", ".">>

MsgPaymentRequired(platform) ==
  <<"Payment", "required", "for", platform, ".", "Please", "check", "your",
    "API", "subscription", "status", ".">>

MsgAnErrorOccurred(platform) ==
  <<"An", "error", "occurred", "with", platform>>

\* error.code === n || error.statusCode === n
HasStatus(error, n) == error.code = JsNum(n) \/ error.statusCode = JsNum(n)

\* the 429 branch's rateLimitReset, a Date in milliseconds
RateLimitResetOf(error, now) ==
  IF Truthy(error.rateLimit_reset)
    THEN error.rateLimit_reset.n * 1000
    ELSE now + FifteenMinutes

\* the 403 branch's errorDetail
ErrorDetailOf(error) ==
  JsOr(error.data_detail, JsOr(error.data_errors0, JsStr(""))).s

\* handleError's 429 branch
RateLimitedError(platform, error, now) ==
  createError(platform, MsgRateLimit(platform, RateLimitResetOf(error, now)),
              JsNum(429), JsNum(RateLimitResetOf(error, now)))

\* handleError's 401 branch
AuthenticationError(platform) ==
  createError(platform, MsgAuthFailed(platform), JsNum(401), Undefined)

\* handleError's 403 branch
PermissionError(platform, error) ==
  createError(platform, MsgPermissionDenied(platform, ErrorDetailOf(error)),
              JsNum(403), Undefined)

QuotaError_ignoresMarker(platform, error) ==
  createError(platform, MsgPaymentRequired(platform), JsNum(402), Undefined)

QuotaError_withReset(platform, error) ==
  createError(platform, MsgPaymentRequired(platform), JsNum(402),
              JsNum(FifteenMinutes))

\* handleError's 402 branch
QuotaError(platform, error) ==
  IF error.data_title = JsStr("CreditsDepleted")
    THEN createError(platform, MsgCreditsDepleted, JsNum(402), Undefined)
    ELSE createError(platform, MsgPaymentRequired(platform), JsNum(402),
                     Undefined)

UnknownError_rethrown(platform, error) == error

\* handleError's last throw
UnknownError(platform, error) ==
  createError(platform,
              IF error.message # <<>> THEN error.message
                                      ELSE MsgAnErrorOccurred(platform),
              JsOr(error.statusCode, error.code), Undefined)

\* SocialPlatform.handleError: the error it throws, for the error it is
\* given and the time Date.now() returns
handleError(platform, error, now) ==
  IF HasStatus(error, 429) THEN RateLimitedError(platform, error, now)
  ELSE IF HasStatus(error, 401) THEN AuthenticationError(platform)
  ELSE IF HasStatus(error, 403) THEN PermissionError(platform, error)
  ELSE IF HasStatus(error, 402) THEN QuotaError(platform, error)
  ELSE UnknownError(platform, error)

(***************************************************************************)
(* What the vendor may answer.  twitter-api-v2 rejects with an error whose *)
(* `code` is the HTTP status, whose `data` is the problem payload and      *)
(* whose `rateLimit` is set when the response carried rate-limit headers;  *)
(* axios rejects with an error whose `code` is a string and whose HTTP     *)
(* status is on `response.status`.  Both may fail without any response.    *)
(***************************************************************************)
VendorStatuses == {401, 402, 403, 429, 500}

\* rateLimit.reset values the vendor sends, in epoch seconds
VendorResets == {3000}

SdkError(status, title, detail, errors0, reset) ==
  [RawError(<<"Request", "failed", "with", "code", ToString(status)>>,
            JsNum(status))
     EXCEPT !.data_title = title, !.data_detail = detail,
            !.data_errors0 = errors0, !.rateLimit_reset = reset]

AxiosError(status) ==
  [RawError(<<"Request", "failed", "with", "status", "code", ToString(status)>>,
            JsStr("ERR_BAD_REQUEST"))
     EXCEPT !.response_status = JsNum(status)]

NetworkError == RawError(<<"socket", "hang", "up">>, JsStr("ECONNRESET"))

TwitterErrors ==
  {SdkError(401, Undefined, Undefined, Undefined, Undefined),
   SdkError(402, JsStr("CreditsDepleted"), JsStr("no-credits"), Undefined, Undefined),
   SdkError(402, Undefined, Undefined, Undefined, Undefined),
   SdkError(403, JsStr("Forbidden"), JsStr("not-permitted"), Undefined, Undefined),
   SdkError(403, Undefined, Undefined, JsStr("first-error"), Undefined),
   SdkError(403, Undefined, Undefined, Undefined, Undefined),
   SdkError(429, Undefined, Undefined, Undefined, Undefined),
   SdkError(500, Undefined, Undefined, Undefined, Undefined),
   NetworkError}
  \cup {SdkError(429, Undefined, Undefined, Undefined, JsNum(r)) : r \in VendorResets}

AxiosErrors == {AxiosError(st) : st \in VendorStatuses} \cup {NetworkError}

VendorErrors(platform) ==
  IF platform = "twitter" THEN TwitterErrors ELSE AxiosErrors

\* the HTTP status a vendor error carries, wherever its client puts it
VendorStatus(error) ==
  IF error.code.ty = "number" THEN error.code ELSE error.response_status

\* the items of a feed or search page: an id and a text each
VendorItem(i) == [id |-> ToString(i), text |-> IF i = 1 THEN "hello" ELSE "other"]

VendorPages == {[i \in 1..n |-> VendorItem(i)] : n \in 0..MaxItems}

\* One operation's vendor behaviour: its failAt-th request fails with err
\* (0: none fails), and a page request that succeeds returns items.
Scripts(platform, maxCalls) ==
  {[failAt |-> 0, err |-> NetworkError, items |-> pg] : pg \in VendorPages}
  \cup {[failAt |-> k, err |-> e, items |-> <<>>] :
          k \in 1..maxCalls, e \in VendorErrors(platform)}

(***************************************************************************)
(* Adapters.  config holds which credential fields are present; client is  *)
(* "null" until authenticate() builds one.                                 *)
(***************************************************************************)
Config(apiKey, apiSecret, accessToken, accessSecret, bearerToken, userId) ==
  [apiKey |-> apiKey, apiSecret |-> apiSecret, accessToken |-> accessToken,
   accessSecret |-> accessSecret, bearerToken |-> bearerToken,
   userId |-> userId]

Configs(platform) ==
  IF platform = "twitter"
    THEN {Config(TRUE, TRUE, TRUE, TRUE, FALSE, FALSE),
          Config(FALSE, FALSE, FALSE, FALSE, TRUE, FALSE),
          Config(FALSE, FALSE, TRUE, FALSE, TRUE, FALSE),
          Config(FALSE, FALSE, FALSE, FALSE, FALSE, FALSE)}
  ELSE IF platform = "instagram"
    THEN {Config(FALSE, FALSE, TRUE, FALSE, FALSE, TRUE),
          Config(FALSE, FALSE, TRUE, FALSE, FALSE, FALSE)}
  ELSE {Config(FALSE, FALSE, TRUE, FALSE, FALSE, FALSE),
        Config(FALSE, FALSE, FALSE, FALSE, FALSE, FALSE)}

\* new TwitterPlatform(config), new InstagramPlatform(config),
\* new LinkedInPlatform(config)
NewAdapter(platform, config) ==
  [platform |-> platform, config |-> config, client |-> "null",
   readWriteClient |-> FALSE, profileId |-> Undefined]

\* SocialPlatform.getPlatform
getPlatform(a) == a.platform

NoError == [RawError(<<>>, Undefined) EXCEPT !.built = "none"]

NoVal == [user |-> Undefined, posts |-> <<>>]

MeId == "me-id"

UserVal == [user |-> JsStr(MeId), posts |-> <<>>]

PostsVal(posts) == [user |-> Undefined, posts |-> posts]

\* An operation returns.  trail lists the handleError calls made on the way,
\* each with the error it was given and the error it threw.
Ok(a, val, calls) ==
  [a |-> a, ok |-> TRUE, err |-> NoError, val |-> val, calls |-> calls,
   trail |-> <<>>]

\* catch (error) { this.handleError(error) }, for an error thrown in the
\* operation's own body
Throw(a, error, now, calls) ==
  [a |-> a, ok |-> FALSE, err |-> handleError(a.platform, error, now),
   val |-> NoVal, calls |-> calls,
   trail |-> <<[in |-> error, out |-> handleError(a.platform, error, now)]>>]

\* catch (error) { this.handleError(error) }, for the error an inner
\* this.getMe() threw: it was classified there and is classified again
Rethrow(a, inner, now) ==
  [a |-> a, ok |-> FALSE, err |-> handleError(a.platform, inner.err, now),
   val |-> NoVal, calls |-> inner.calls,
   trail |-> Append(inner.trail,
                    [in |-> inner.err,
                     out |-> handleError(a.platform, inner.err, now)])]

\* throw this.createError(message)
Plain(a, message) == createError(a.platform, message, Undefined, Undefined)

MsgNotAuthenticated == <<"Not", "authenticated">>

MsgUnsupportedAction(action) == <<"Unsupported", "action", ":", action>>

MsgCommentRequired == <<"Comment", "text", "is", "required">>

\* mapInstagramMediaToPost, mapLinkedInPostToPost, mapTwitterTweetToPost
MapPost(a, item) == [id |-> item.id, platform |-> a.platform, content |-> item.text]

MapPage(a, items) == [i \in 1..Len(items) |-> MapPost(a, items[i])]

\* the vendor request `name`, the next one of the operation: whether it fails
Fails(s, calls) == s.failAt = Len(calls) + 1

(***************************************************************************)
(* Request options (src/types/index.ts).  "" is an absent string field:    *)
(* the adapters only test these fields for truthiness.                     *)
(***************************************************************************)
MediaUrl == "https://example.com/a.png"

LinkUrl == "https://example.com/article"

PostOptionsSet ==
  {[text |-> tx, caption |-> "", mediaPath |-> IF m THEN MediaUrl ELSE "",
    mediaUrls |-> IF m THEN <<MediaUrl>> ELSE <<>>,
    linkUrl |-> lk, linkTitle |-> ""] :
     tx \in {"", "hello"}, m \in BOOLEAN, lk \in {"", LinkUrl}}

EngagementOptionsSet ==
  {[postId |-> "42", action |-> ac, commentText |-> ct] :
     ac \in EngagementAction, ct \in {"", "nice"}}

SearchOptionsSet == {[query |-> "q"]}

\* s1 || s2 on strings
StrOr(s1, s2) == IF s1 # "" THEN s1 ELSE s2

\* options.mediaUrls?.[0]
FirstMediaUrl(options) ==
  IF Len(options.mediaUrls) > 0 THEN options.mediaUrls[1] ELSE ""

(***************************************************************************)
(* InstagramPlatform.  Every operation takes the adapter a, the vendor     *)
(* behaviour s and the clock reading now, and yields the adapter after it, *)
(* whether it returned or threw, the error or value, and the vendor        *)
(* requests it issued.  getMe also takes the requests its caller issued.   *)
(***************************************************************************)
InstagramPlatform_getMe(a, s, now, calls) ==
  IF a.client = "null"
    THEN Throw(a, Plain(a, MsgNotAuthenticated), now, calls)
  ELSE IF Fails(s, calls)
    THEN Throw(a, s.err, now, Append(calls, "GET /{userId}"))
  ELSE Ok(a, UserVal, Append(calls, "GET /{userId}"))

InstagramPlatform_authenticate(a, s, now) ==
  IF ~a.config.accessToken \/ ~a.config.userId
    THEN Throw(a, Plain(a, <<"Missing", "Instagram", "access", "token", "or",
                             "user", "ID">>), now, <<>>)
  ELSE LET a1 == [a EXCEPT !.client = "axios"]
           me == InstagramPlatform_getMe(a1, s, now, <<>>)
       IN  IF me.ok THEN Ok(a1, NoVal, me.calls)
                    ELSE Rethrow(a1, me, now)

\* InstagramPlatform.getFeed with the media request made a second time
\* when it fails
InstagramPlatform_getFeed_retriesMedia(a, s, now) ==
  IF a.client = "null"
    THEN Throw(a, Plain(a, MsgNotAuthenticated), now, <<>>)
  ELSE IF Fails(s, <<>>)
    THEN Throw(a, s.err, now,
               <<"GET /{userId}/media", "GET /{userId}/media">>)
  ELSE Ok(a, PostsVal(MapPage(a, s.items)), <<"GET /{userId}/media">>)

InstagramPlatform_getFeed(a, s, now) ==
  IF a.client = "null"
    THEN Throw(a, Plain(a, MsgNotAuthenticated), now, <<>>)
  ELSE IF Fails(s, <<>>)
    THEN Throw(a, s.err, now, <<"GET /{userId}/media">>)
  ELSE LET me == InstagramPlatform_getMe(a, s, now, <<"GET /{userId}/media">>)
       IN  IF me.ok THEN Ok(a, PostsVal(MapPage(a, s.items)), me.calls)
                    ELSE Rethrow(a, me, now)

InstagramPlatform_post_withoutMediaCheck(a, options, s, now) ==
  IF a.client = "null"
    THEN Throw(a, Plain(a, MsgNotAuthenticated), now, <<>>)
  ELSE Ok(a, PostsVal(<<MapPost(a, [id |-> "new-id",
                                    text |-> StrOr(options.caption,
                                                   options.text)])>>),
          <<"POST /{userId}/media", "POST /{userId}/media_publish",
            "GET /{mediaId}", "GET /{userId}">>)

InstagramPlatform_post(a, options, s, now) ==
  IF a.client = "null"
    THEN Throw(a, Plain(a, MsgNotAuthenticated), now, <<>>)
  ELSE IF options.mediaPath = "" /\ FirstMediaUrl(options) = ""
    THEN Throw(a, Plain(a, <<"Instagram", "requires", "an", "image", "or",
                             "video", "URL", "to", "post">>), now, <<>>)
  ELSE IF StrOr(FirstMediaUrl(options), options.mediaPath) = ""
    THEN Throw(a, Plain(a, <<"Media", "URL", "is", "required">>), now, <<>>)
  ELSE IF Fails(s, <<>>)
    THEN Throw(a, s.err, now, <<"POST /{userId}/media">>)
  ELSE IF Fails(s, <<"POST /{userId}/media">>)
    THEN Throw(a, s.err, now,
               <<"POST /{userId}/media", "POST /{userId}/media_publish">>)
  ELSE IF Fails(s, <<"POST /{userId}/media", "POST /{userId}/media_publish">>)
    THEN Throw(a, s.err, now,
               <<"POST /{userId}/media", "POST /{userId}/media_publish",
                 "GET /{mediaId}">>)
  ELSE LET me == InstagramPlatform_getMe(a, s, now,
                   <<"POST /{userId}/media", "POST /{userId}/media_publish",
                     "GET /{mediaId}">>)
           media == [id |-> "new-id",
                     text |-> StrOr(options.caption, options.text)]
       IN  IF me.ok THEN Ok(a, PostsVal(<<MapPost(a, media)>>), me.calls)
                    ELSE Rethrow(a, me, now)

InstagramPlatform_engage(a, options, s, now) ==
  IF a.client = "null"
    THEN Throw(a, Plain(a, MsgNotAuthenticated), now, <<>>)
  ELSE IF options.action \in {"comment", "reply"}
    THEN IF options.commentText = ""
           THEN Throw(a, Plain(a, MsgCommentRequired), now, <<>>)
         ELSE IF Fails(s, <<>>)
           THEN Throw(a, s.err, now, <<"POST /{postId}/comments">>)
         ELSE Ok(a, NoVal, <<"POST /{postId}/comments">>)
  ELSE IF options.action = "like"
    THEN Throw(a, Plain(a, <<"Instagram", "API", "does", "not", "support",
                             "liking", "posts", "programmatically">>),
               now, <<>>)
  ELSE IF options.action = "share"
    THEN Throw(a, Plain(a, <<"Instagram", "API", "does", "not", "support",
                             "sharing", "posts", "programmatically">>),
               now, <<>>)
  ELSE Throw(a, Plain(a, MsgUnsupportedAction(options.action)), now, <<>>)

InstagramPlatform_search(a, options, s, now) ==
  IF a.client = "null"
    THEN Throw(a, Plain(a, MsgNotAuthenticated), now, <<>>)
  ELSE Throw(a, Plain(a, <<"Instagram", "API", "does", "not", "support",
                           "post", "search", ".", "Only", "hashtag", "search",
                           "is", "available", "with", "additional",
                           "permissions", ".">>), now, <<>>)

(***************************************************************************)
(* LinkedInPlatform                                                        *)
(***************************************************************************)
LinkedInPlatform_getMe(a, s, now, calls) ==
  IF a.client = "null"
    THEN Throw(a, Plain(a, MsgNotAuthenticated), now, calls)
  ELSE IF Fails(s, calls)
    THEN Throw(a, s.err, now, Append(calls, "GET /me"))
  ELSE Ok(a, UserVal, Append(calls, "GET /me"))

LinkedInPlatform_authenticate_onlyOnce(a, s, now) ==
  IF a.client # "null"
    THEN Throw(a, Plain(a, <<"Already", "authenticated">>), now, <<>>)
  ELSE IF ~a.config.accessToken
    THEN Throw(a, Plain(a, <<"Missing", "LinkedIn", "access", "token">>),
               now, <<>>)
  ELSE Ok([a EXCEPT !.client = "axios", !.profileId = JsStr(MeId)], NoVal,
          <<"GET /me">>)

LinkedInPlatform_authenticate(a, s, now) ==
  IF ~a.config.accessToken
    THEN Throw(a, Plain(a, <<"Missing", "LinkedIn", "access", "token">>),
               now, <<>>)
  ELSE LET a1 == [a EXCEPT !.client = "axios"]
           me == LinkedInPlatform_getMe(a1, s, now, <<>>)
       IN  IF me.ok
             THEN Ok([a1 EXCEPT !.profileId = me.val.user], NoVal, me.calls)
             ELSE Rethrow(a1, me, now)

\* !this.client || !this.profileId
LinkedInNotReady(a) == a.client = "null" \/ ~Truthy(a.profileId)

LinkedInPlatform_getFeed(a, s, now) ==
  IF LinkedInNotReady(a)
    THEN Throw(a, Plain(a, MsgNotAuthenticated), now, <<>>)
  ELSE IF Fails(s, <<>>)
    THEN Throw(a, s.err, now, <<"GET /ugcPosts">>)
  ELSE LET me == LinkedInPlatform_getMe(a, s, now, <<"GET /ugcPosts">>)
       IN  IF me.ok THEN Ok(a, PostsVal(MapPage(a, s.items)), me.calls)
                    ELSE Rethrow(a, me, now)

LinkedInPlatform_post(a, options, s, now) ==
  IF LinkedInNotReady(a)
    THEN Throw(a, Plain(a, MsgNotAuthenticated), now, <<>>)
  ELSE IF options.text = "" /\ options.linkUrl = ""
    THEN Throw(a, Plain(a, <<"Post", "text", "or", "link", "URL", "is",
                             "required">>), now, <<>>)
  ELSE IF Fails(s, <<>>)
    THEN Throw(a, s.err, now, <<"POST /ugcPosts">>)
  ELSE LET me == LinkedInPlatform_getMe(a, s, now, <<"POST /ugcPosts">>)
           made == [id |-> "new-id", platform |-> "linkedin",
                    content |-> options.text]
       IN  IF me.ok THEN Ok(a, PostsVal(<<made>>), me.calls)
                    ELSE Rethrow(a, me, now)

LinkedInPlatform_engage(a, options, s, now) ==
  IF LinkedInNotReady(a)
    THEN Throw(a, Plain(a, MsgNotAuthenticated), now, <<>>)
  ELSE IF options.action = "like"
    THEN IF Fails(s, <<>>)
           THEN Throw(a, s.err, now, <<"POST /socialActions LIKE">>)
           ELSE Ok(a, NoVal, <<"POST /socialActions LIKE">>)
  ELSE IF options.action \in {"comment", "reply"}
    THEN IF options.commentText = ""
           THEN Throw(a, Plain(a, MsgCommentRequired), now, <<>>)
         ELSE IF Fails(s, <<>>)
           THEN Throw(a, s.err, now, <<"POST /socialActions message">>)
         ELSE Ok(a, NoVal, <<"POST /socialActions message">>)
  ELSE IF options.action = "share"
    THEN IF Fails(s, <<>>)
           THEN Throw(a, s.err, now, <<"POST /ugcPosts originalShare">>)
           ELSE Ok(a, NoVal, <<"POST /ugcPosts originalShare">>)
  ELSE Throw(a, Plain(a, MsgUnsupportedAction(options.action)), now, <<>>)

LinkedInPlatform_search_emptyList(a, options, s, now) ==
  IF a.client = "null"
    THEN Throw(a, Plain(a, MsgNotAuthenticated), now, <<>>)
  ELSE Ok(a, PostsVal(<<>>), <<>>)

LinkedInPlatform_search(a, options, s, now) ==
  IF a.client = "null"
    THEN Throw(a, Plain(a, MsgNotAuthenticated), now, <<>>)
  ELSE Throw(a, Plain(a, <<"LinkedIn", "API", "does", "not", "support",
                           "general", "post", "search">>), now, <<>>)

(***************************************************************************)
(* TwitterPlatform.  client is "user" (OAuth 1.0a user context) or "app"   *)
(* (bearer token); readWriteClient is set only with the former.            *)
(***************************************************************************)
MsgWriteAccess ==
  <<"Write", "access", "not", "available", ".", "Need", "OAuth", "1.0a",
    "credentials", ".">>

TwitterPlatform_getMe(a, s, now, calls) ==
  IF a.client = "null"
    THEN Throw(a, Plain(a, MsgNotAuthenticated), now, calls)
  ELSE IF Fails(s, calls)
    THEN Throw(a, s.err, now, Append(calls, "v2.me"))
  ELSE Ok(a, UserVal, Append(calls, "v2.me"))

\* TwitterPlatform.authenticate with the bearer-token branch also assigning
\* readWriteClient
TwitterPlatform_authenticate_bearerWrites(a, s, now) ==
  IF a.config.bearerToken
    THEN LET a1 == [a EXCEPT !.client = "app", !.readWriteClient = TRUE]
             me == TwitterPlatform_getMe(a1, s, now, <<>>)
         IN  IF me.ok THEN Ok(a1, NoVal, me.calls)
                      ELSE Rethrow(a1, me, now)
  ELSE Throw(a, Plain(a, <<"Missing", "Twitter", "API", "credentials">>),
             now, <<>>)

TwitterPlatform_authenticate(a, s, now) ==
  IF a.config.apiKey /\ a.config.apiSecret /\ a.config.accessToken
       /\ a.config.accessSecret
    THEN LET a1 == [a EXCEPT !.client = "user", !.readWriteClient = TRUE]
             me == TwitterPlatform_getMe(a1, s, now, <<>>)
         IN  IF me.ok THEN Ok(a1, NoVal, me.calls)
                      ELSE Rethrow(a1, me, now)
  ELSE IF a.config.bearerToken
    THEN LET a1 == [a EXCEPT !.client = "app"]
             me == TwitterPlatform_getMe(a1, s, now, <<>>)
         IN  IF me.ok THEN Ok(a1, NoVal, me.calls)
                      ELSE Rethrow(a1, me, now)
  ELSE Throw(a, Plain(a, <<"Missing", "Twitter", "API", "credentials">>),
             now, <<>>)

TwitterPlatform_getFeed(a, s, now) ==
  IF a.client = "null"
    THEN Throw(a, Plain(a, MsgNotAuthenticated), now, <<>>)
  ELSE LET me == TwitterPlatform_getMe(a, s, now, <<>>)
       IN  IF ~me.ok THEN Rethrow(a, me, now)
           ELSE IF Fails(s, me.calls)
             THEN Throw(a, s.err, now, Append(me.calls, "v2.homeTimeline"))
           ELSE Ok(a, PostsVal(MapPage(a, s.items)),
                   Append(me.calls, "v2.homeTimeline"))

\* the uploadMedia requests of the first n media URLs
Uploads(n) == [i \in 1..n |-> "v1.uploadMedia"]

TwitterPlatform_post(a, options, s, now) ==
  IF ~a.readWriteClient
    THEN Throw(a, Plain(a, MsgWriteAccess), now, <<>>)
  ELSE IF options.text = ""
    THEN Throw(a, Plain(a, <<"Tweet", "text", "is", "required">>), now, <<>>)
  ELSE LET n == Len(options.mediaUrls)
           made == [id |-> "new-id", text |-> options.text]
       IN  IF s.failAt \in 1..n
             THEN Throw(a, s.err, now, Uploads(s.failAt))
           ELSE IF Fails(s, Uploads(n))
             THEN Throw(a, s.err, now, Append(Uploads(n), "v2.tweet"))
           ELSE IF Fails(s, Append(Uploads(n), "v2.tweet"))
             THEN Throw(a, s.err, now,
                        Uploads(n) \o <<"v2.tweet", "v2.singleTweet">>)
           ELSE Ok(a, PostsVal(<<MapPost(a, made)>>),
                   Uploads(n) \o <<"v2.tweet", "v2.singleTweet">>)

TwitterPlatform_engage(a, options, s, now) ==
  IF ~a.readWriteClient
    THEN Throw(a, Plain(a, MsgWriteAccess), now, <<>>)
  ELSE LET me == TwitterPlatform_getMe(a, s, now, <<>>)
           request == CASE options.action = "like" -> "v2.like"
                        [] options.action = "retweet" -> "v2.retweet"
                        [] OTHER -> "v2.reply"
       IN  IF ~me.ok THEN Rethrow(a, me, now)
           ELSE IF options.action \in {"like", "retweet"}
                     \/ (options.action \in {"reply", "comment"}
                           /\ options.commentText # "")
             THEN IF Fails(s, me.calls)
                    THEN Throw(a, s.err, now, Append(me.calls, request))
                    ELSE Ok(a, NoVal, Append(me.calls, request))
           ELSE IF options.action \in {"reply", "comment"}
             THEN Throw(a, Plain(a, <<"Comment", "text", "is", "required",
                                      "for", "replies">>), now, me.calls)
           ELSE Throw(a, Plain(a, MsgUnsupportedAction(options.action)),
                      now, me.calls)

TwitterPlatform_search(a, options, s, now) ==
  IF a.client = "null"
    THEN Throw(a, Plain(a, MsgNotAuthenticated), now, <<>>)
  ELSE IF Fails(s, <<>>)
    THEN Throw(a, s.err, now, <<"v2.search">>)
  ELSE Ok(a, PostsVal(MapPage(a, s.items)), <<"v2.search">>)

(***************************************************************************)
(* The Capability Contract: each operation, on whichever adapter.          *)
(***************************************************************************)
Operations == {"authenticate", "getMe", "getFeed", "post", "engage", "search"}

authenticate(a, s, now) ==
  CASE a.platform = "twitter" -> TwitterPlatform_authenticate(a, s, now)
    [] a.platform = "instagram" -> InstagramPlatform_authenticate(a, s, now)
    [] a.platform = "linkedin" -> LinkedInPlatform_authenticate(a, s, now)

getMe(a, s, now) ==
  CASE a.platform = "twitter" -> TwitterPlatform_getMe(a, s, now, <<>>)
    [] a.platform = "instagram" -> InstagramPlatform_getMe(a, s, now, <<>>)
    [] a.platform = "linkedin" -> LinkedInPlatform_getMe(a, s, now, <<>>)

getFeed(a, s, now) ==
  CASE a.platform = "twitter" -> TwitterPlatform_getFeed(a, s, now)
    [] a.platform = "instagram" -> InstagramPlatform_getFeed(a, s, now)
    [] a.platform = "linkedin" -> LinkedInPlatform_getFeed(a, s, now)

post(a, options, s, now) ==
  CASE a.platform = "twitter" -> TwitterPlatform_post(a, options, s, now)
    [] a.platform = "instagram" -> InstagramPlatform_post(a, options, s, now)
    [] a.platform = "linkedin" -> LinkedInPlatform_post(a, options, s, now)

engage(a, options, s, now) ==
  CASE a.platform = "twitter" -> TwitterPlatform_engage(a, options, s, now)
    [] a.platform = "instagram" -> InstagramPlatform_engage(a, options, s, now)
    [] a.platform = "linkedin" -> LinkedInPlatform_engage(a, options, s, now)

search(a, options, s, now) ==
  CASE a.platform = "twitter" -> TwitterPlatform_search(a, options, s, now)
    [] a.platform = "instagram" -> InstagramPlatform_search(a, options, s, now)
    [] a.platform = "linkedin" -> LinkedInPlatform_search(a, options, s, now)

\* the most vendor requests one operation issues on the platform's adapter
MaxCalls(op, platform) ==
  CASE op \in {"authenticate", "getMe", "search"} -> 1
    [] op = "getFeed" -> 2
    [] op = "engage" -> IF platform = "twitter" THEN 2 ELSE 1
    [] op = "post" -> CASE platform = "twitter" -> 3
                        [] platform = "instagram" -> 4
                        [] platform = "linkedin" -> 2

(***************************************************************************)
(* Spec: one adapter and its caller.  adapter is the adapter object,       *)
(* authSucceeded whether an authenticate() call on it has returned, and    *)
(* last what the most recent operation did: the operation and its options, *)
(* the clock reading, whether authenticate() had succeeded before it, the  *)
(* vendor error that hit it (if any), the page the vendor would return,    *)
(* and its outcome.                                                        *)
(***************************************************************************)
NoOptions == [none |-> TRUE]

NoRun == [prog |-> "none"]

\* the vendor error the operation ran into, if one of its requests failed
VendorHit(s, res) ==
  IF s.failAt \in 1..Len(res.calls) THEN s.err ELSE NoError

\* the place among the operation's requests of the one that failed, or 0
HitAt(s, res) == IF s.failAt \in 1..Len(res.calls) THEN s.failAt ELSE 0

Outcome(op, options, s, now, res) ==
  [op |-> op, options |-> options, now |-> now,
   authedBefore |-> authSucceeded, vendor |-> VendorHit(s, res),
   hitAt |-> HitAt(s, res),
   page |-> s.items,
   ok |-> res.ok, err |-> res.err, val |-> res.val, calls |-> res.calls,
   trail |-> res.trail]

Init ==
  /\ adapter \in {NewAdapter(p, c) : p \in Platform, c \in Configs("twitter")
                    \cup Configs("instagram") \cup Configs("linkedin")}
  /\ adapter.config \in Configs(adapter.platform)
  /\ authSucceeded = FALSE
  /\ last = [op |-> "none", options |-> NoOptions, now |-> 0,
             authedBefore |-> FALSE, vendor |-> NoError, hitAt |-> 0,
             page |-> <<>>,
             ok |-> TRUE, err |-> NoError, val |-> NoVal, calls |-> <<>>,
             trail |-> <<>>]
  /\ run = NoRun

Authenticate ==
  \E s \in Scripts(adapter.platform, MaxCalls("authenticate", adapter.platform)), now \in Times :
    LET res == authenticate(adapter, s, now)
    IN  /\ adapter' = res.a
        /\ authSucceeded' = (authSucceeded \/ res.ok)
        /\ last' = Outcome("authenticate", NoOptions, s, now, res)
        /\ UNCHANGED run

GetMe ==
  \E s \in Scripts(adapter.platform, MaxCalls("getMe", adapter.platform)), now \in Times :
    LET res == getMe(adapter, s, now)
    IN  /\ adapter' = res.a
        /\ last' = Outcome("getMe", NoOptions, s, now, res)
        /\ UNCHANGED <<authSucceeded, run>>

GetFeed ==
  \E s \in Scripts(adapter.platform, MaxCalls("getFeed", adapter.platform)), now \in Times :
    LET res == getFeed(adapter, s, now)
    IN  /\ adapter' = res.a
        /\ last' = Outcome("getFeed", NoOptions, s, now, res)
        /\ UNCHANGED <<authSucceeded, run>>

Post ==
  \E options \in PostOptionsSet,
     s \in Scripts(adapter.platform, MaxCalls("post", adapter.platform)), now \in Times :
    LET res == post(adapter, options, s, now)
    IN  /\ adapter' = res.a
        /\ last' = Outcome("post", options, s, now, res)
        /\ UNCHANGED <<authSucceeded, run>>

Engage ==
  \E options \in EngagementOptionsSet,
     s \in Scripts(adapter.platform, MaxCalls("engage", adapter.platform)), now \in Times :
    LET res == engage(adapter, options, s, now)
    IN  /\ adapter' = res.a
        /\ last' = Outcome("engage", options, s, now, res)
        /\ UNCHANGED <<authSucceeded, run>>

Search ==
  \E options \in SearchOptionsSet,
     s \in Scripts(adapter.platform, MaxCalls("search", adapter.platform)), now \in Times :
    LET res == search(adapter, options, s, now)
    IN  /\ adapter' = res.a
        /\ last' = Outcome("search", options, s, now, res)
        /\ UNCHANGED <<authSucceeded, run>>

Next == Authenticate \/ GetMe \/ GetFeed \/ Post \/ Engage \/ Search

Spec == Init /\ [][Next]_vars

(***************************************************************************)
(* The callers that reach several adapters: src/cli/utils.ts,              *)
(* src/cli/commands/post.ts, the feed watcher and the Ink feed viewer.     *)
(* process.env holds, per platform, which credential variables are set.    *)
(***************************************************************************)
\* the platform words a request may carry
\* A string is the sequence of its characters.  An ASCII character is
\* written as itself and any other one by its code point.
LowerLetters ==
  <<"a", "b", "c", "d", "e", "f", "g", "h", "i", "j", "k", "l", "m", "n",
    "o", "p", "q", "r", "s", "t", "u", "v", "w", "x", "y", "z">>

UpperLetters ==
  <<"A", "B", "C", "D", "E", "F", "G", "H", "I", "J", "K", "L", "M", "N",
    "O", "P", "Q", "R", "S", "T", "U", "V", "W", "X", "Y", "Z">>

\* KELVIN SIGN, LATIN CAPITAL LETTER I WITH DOT ABOVE, COMBINING DOT ABOVE
KelvinSign == "U+212A"

CapitalDottedI == "U+0130"

CombiningDot == "U+0307"

TwitterName == <<"t", "w", "i", "t", "t", "e", "r">>

InstagramName == <<"i", "n", "s", "t", "a", "g", "r", "a", "m">>

LinkedInName == <<"l", "i", "n", "k", "e", "d", "i", "n">>

FacebookName == <<"f", "a", "c", "e", "b", "o", "o", "k">>

PlatformStrings ==
  {TwitterName, <<"X">>, LinkedInName, <<"i", "g">>, FacebookName}

\* the lower case of one character: one character, or two for U+0130
LowerChar(c) ==
  IF \E i \in 1..Len(UpperLetters) : UpperLetters[i] = c
    THEN <<LowerLetters[CHOOSE i \in 1..Len(UpperLetters) :
                          UpperLetters[i] = c]>>
  ELSE IF c = KelvinSign THEN <<"k">>
  ELSE IF c = CapitalDottedI THEN <<"i", CombiningDot>>
  ELSE <<c>>

\* parsePlatform with the comparison made on platformStr itself
toLowerCase_unchanged(str) == str

\* String.prototype.toLowerCase
RECURSIVE toLowerCase(_)
toLowerCase(str) ==
  IF str = <<>> THEN <<>>
  ELSE LowerChar(Head(str)) \o toLowerCase(Tail(str))

\* a plain Error, thrown outside the adapters
PlainError(message) == [RawError(message, Undefined) EXCEPT !.built = "Error"]

\* parsePlatform: the platform, or the Error it throws
parsePlatform(platformStr) ==
  LET lower == toLowerCase(platformStr)
  IN  IF lower = TwitterName \/ lower = <<"x">>
        THEN [ok |-> TRUE, platform |-> "twitter", err |-> NoError]
      ELSE IF lower = InstagramName \/ lower = <<"i", "g">>
        THEN [ok |-> TRUE, platform |-> "instagram", err |-> NoError]
      ELSE IF lower = LinkedInName \/ lower = <<"l", "i">>
        THEN [ok |-> TRUE, platform |-> "linkedin", err |-> NoError]
      ELSE [ok |-> FALSE, platform |-> "",
            err |-> PlainError(<<"Unknown", "platform", ":">> \o platformStr)]

\* getCredentials: null, or the config read from process.env
getCredentials(env, platform) ==
  LET e == env[platform]
      isNull == CASE platform = "twitter" -> ~e.accessToken /\ ~e.bearerToken
                  [] platform = "instagram" -> ~e.accessToken \/ ~e.userId
                  [] platform = "linkedin" -> ~e.accessToken
  IN  [isNull |-> isNull, config |-> e]

\* hasCredentials
hasCredentials(env, platform) == ~getCredentials(env, platform).isNull

\* the Error getPlatformInstance throws when getCredentials returns null
NoCredentials(platform) ==
  PlainError(<<"No", "credentials", "found", "for", platform, ".", "Please",
               "run", "social-cli auth setup", "first", ".">>)

\* what getPlatformInstance does after authenticate: the instance returned,
\* or authenticate's error passing through
Instance(made) == [ok |-> made.ok, a |-> made.a, err |-> made.err]

\* getPlatformInstance: the authenticated adapter, or the error thrown
getPlatformInstance(env, platform, s, now) ==
  IF getCredentials(env, platform).isNull
    THEN [ok |-> FALSE,
          a |-> NewAdapter(platform, getCredentials(env, platform).config),
          err |-> NoCredentials(platform)]
    ELSE Instance(authenticate(
           NewAdapter(platform, getCredentials(env, platform).config), s, now))

\* the platforms with credentials, in the order watch() and the viewer's
\* first effect push them
CredentialedPlatforms(env) ==
  (IF hasCredentials(env, "twitter") THEN <<"twitter">> ELSE <<>>)
    \o (IF hasCredentials(env, "instagram") THEN <<"instagram">> ELSE <<>>)
    \o (IF hasCredentials(env, "linkedin") THEN <<"linkedin">> ELSE <<>>)

Envs ==
  {[p \in Platform |-> CASE p = "twitter" -> t [] p = "instagram" -> i
                         [] p = "linkedin" -> l] :
     t \in Configs("twitter"), i \in Configs("instagram"),
     l \in Configs("linkedin")}

\* the requests: platformStrs after split(',') and trim
PlatformLists ==
  UNION {[1..n -> PlatformStrings] : n \in 1..MaxPlatforms}

\* handlePost's postOptions, from the text and the --media option
PostCommandOptions ==
  {o \in PostOptionsSet : o.text = "hello" /\ o.linkUrl = ""}

\* the vendor behaviours the callers are run against
DispatchErrors(platform) ==
  {e \in VendorErrors(platform) : VendorStatus(e) \in {JsNum(401), Undefined}}

DispatchScripts(platform, maxCalls) ==
  {s \in Scripts(platform, maxCalls) :
     s.failAt = 0 \/ s.err \in DispatchErrors(platform)}

DispatchNow == CHOOSE now \in Times : \A other \in Times : now <= other

(***************************************************************************)
(* SpecDispatch: one run of handlePost, of the watcher or of the viewer's  *)
(* loading, a step per loop iteration.  run holds the program, its place   *)
(* (pc, i), process.env, and what it has collected.                        *)
(*   post     strs the request, platforms the adapters that                *)
(*            getMultiplePlatforms returned, printed the errors it logged, *)
(*            results handlePost's aggregate, postCalls the adapters (by   *)
(*            index) on which post() was invoked.                          *)
(*   watch    platforms those with credentials, refresh the displayFeed    *)
(*            call under way, log what it did for each platform so far.    *)
(*   viewer   the same for loadAllFeeds, and feeds, the three FeedStates.  *)
(***************************************************************************)
\* a refresh timer fires at most this many times
MaxRefreshes == 2

handlePost_nextPlatform_abortsOnFailure(i, ok, n) ==
  IF ok THEN i + 1 ELSE n + 1

\* handlePost's loop: the index of the adapter tried after adapter i of n,
\* whether post() returned (ok) or threw into the catch clause
handlePost_nextPlatform(i, ok, n) == i + 1

\* displayFeed's loop, likewise (its catch clause and its `continue`)
displayFeed_nextPlatform(i, ok, n) == i + 1

\* loadAllFeeds's loop, likewise (loadFeed catches every error itself)
loadAllFeeds_nextPlatform(i, ok, n) == i + 1

PostRuns ==
  {[prog |-> "post", pc |-> "init", i |-> 1, env |-> env, strs |-> strs,
    options |-> o, platforms |-> <<>>, printed |-> <<>>, results |-> <<>>,
    postCalls |-> <<>>] :
     env \in Envs, strs \in PlatformLists, o \in PostCommandOptions}

WatchRuns ==
  {[prog |-> pr, pc |-> "start", i |-> 1, env |-> env,
    platforms |-> CredentialedPlatforms(env), refresh |-> 0, log |-> <<>>,
    feeds |-> [p \in Platform |-> [posts |-> <<>>, loading |-> FALSE,
                                   error |-> <<>>]]] :
     env \in Envs, pr \in {"watch", "viewer"}}

InitDispatch ==
  /\ adapter = NewAdapter("twitter", Config(FALSE, FALSE, FALSE, FALSE, FALSE, FALSE))
  /\ authSucceeded = FALSE
  /\ last = [op |-> "none"]
  /\ run \in PostRuns \cup WatchRuns

\* getMultiplePlatforms's catch: the message is printed, the loop goes on
InitFailed(r, err) ==
  [r EXCEPT !.i = @ + 1, !.printed = Append(@, err.message)]

\* getMultiplePlatforms's try, after getPlatformInstance
Initialised(r, inst) ==
  IF inst.ok
    THEN [r EXCEPT !.i = @ + 1, !.platforms = Append(@, inst.a)]
    ELSE InitFailed(r, inst.err)

\* getMultiplePlatforms, one iteration: parsePlatform and getPlatformInstance
\* inside its try, the error printed in its catch
GetMultiplePlatformsStep ==
  /\ run.prog = "post" /\ run.pc = "init" /\ run.i <= Len(run.strs)
  /\ IF ~parsePlatform(run.strs[run.i]).ok
       THEN run' = InitFailed(run, parsePlatform(run.strs[run.i]).err)
       ELSE \E s \in DispatchScripts(
                       parsePlatform(run.strs[run.i]).platform,
                       MaxCalls("authenticate",
                                parsePlatform(run.strs[run.i]).platform)) :
              run' = Initialised(run,
                       getPlatformInstance(
                         run.env, parsePlatform(run.strs[run.i]).platform,
                         s, DispatchNow))
  /\ UNCHANGED <<adapter, authSucceeded, last>>

\* getMultiplePlatforms returns, or throws 'No valid platforms could be
\* initialized', which handlePost catches to print it and process.exit(1)
GetMultiplePlatformsEnd ==
  /\ run.prog = "post" /\ run.pc = "init" /\ run.i > Len(run.strs)
  /\ run' = IF run.platforms = <<>>
              THEN [run EXCEPT !.pc = "exit"]
              ELSE [run EXCEPT !.pc = "post", !.i = 1]
  /\ UNCHANGED <<adapter, authSucceeded, last>>

\* the record handlePost pushes for adapter a: from its try when post()
\* returned, from its catch when it threw
PostRecord(a, res) ==
  IF res.ok
    THEN [platform |-> getPlatform(a), success |-> TRUE,
          postId |-> res.val.posts[1].id, error |-> <<>>]
    ELSE [platform |-> getPlatform(a), success |-> FALSE,
          postId |-> "", error |-> res.err.message]

\* handlePost's loop body, after post() on adapter r.i
Posted(r, res) ==
  [r EXCEPT !.i = handlePost_nextPlatform(r.i, res.ok, Len(r.platforms)),
            !.platforms = [@ EXCEPT ![r.i] = res.a],
            !.results = Append(@, PostRecord(r.platforms[r.i], res)),
            !.postCalls = Append(@, r.i)]

\* handlePost's loop, one iteration
HandlePostStep ==
  /\ run.prog = "post" /\ run.pc = "post" /\ run.i <= Len(run.platforms)
  /\ \E s \in DispatchScripts(run.platforms[run.i].platform,
                              MaxCalls("post", run.platforms[run.i].platform)) :
       run' = Posted(run, post(run.platforms[run.i], run.options, s,
                               DispatchNow))
  /\ UNCHANGED <<adapter, authSucceeded, last>>

\* handlePost prints its summary and returns
HandlePostEnd ==
  /\ run.prog = "post" /\ run.pc = "post" /\ run.i > Len(run.platforms)
  /\ run' = [run EXCEPT !.pc = "done"]
  /\ UNCHANGED <<adapter, authSucceeded, last>>

\* watch() and the viewer's first effect: exit when no platform has
\* credentials, else the initial displayFeed / loadAllFeeds
WatchStart ==
  /\ run.prog \in {"watch", "viewer"} /\ run.pc = "start"
  /\ run' = IF run.platforms = <<>>
              THEN [run EXCEPT !.pc = "exit"]
              ELSE [run EXCEPT !.pc = "refresh", !.refresh = 1, !.i = 1]
  /\ UNCHANGED <<adapter, authSucceeded, last>>

\* loadFeed's try and catch: the FeedState it stores
FeedState(inst, feed) ==
  IF inst.ok /\ feed.ok
    THEN [posts |-> feed.val.posts, loading |-> FALSE, error |-> <<>>]
    ELSE [posts |-> <<>>, loading |-> FALSE,
          error |-> IF inst.ok THEN feed.err.message ELSE inst.err.message]

\* what one iteration did: the platform, whether getPlatformInstance returned
\* an adapter, whether getFeed was invoked on it, whether it returned, and
\* what there is to show
Attempt(platform, inst, feed) ==
  [platform |-> platform, instance |-> inst.ok, getFeed |-> inst.ok,
   ok |-> inst.ok /\ feed.ok, shown |-> FeedState(inst, feed)]

\* getFeed on the instance, inside the same try
FeedOf(platform, inst, s, now) ==
  Attempt(platform, inst, getFeed(inst.a, s, now))

\* one platform of a refresh: getPlatformInstance, then getFeed
fetchFeed(env, platform, s1, s2, now) ==
  FeedOf(platform, getPlatformInstance(env, platform, s1, now), s2, now)

\* displayFeed's loop body, after the attempt on platform r.i
Displayed(r, attempt) ==
  [r EXCEPT !.i = displayFeed_nextPlatform(r.i, attempt.ok, Len(r.platforms)),
            !.log = Append(@, attempt)]

\* loadFeed's last setFeeds, and loadAllFeeds's next iteration
Loaded(r, attempt) ==
  [r EXCEPT !.pc = "refresh",
            !.i = loadAllFeeds_nextPlatform(r.i, attempt.ok, Len(r.platforms)),
            !.feeds = [@ EXCEPT ![attempt.platform] = attempt.shown],
            !.log = Append(@, attempt)]

\* displayFeed's loop, one iteration
DisplayFeedStep ==
  /\ run.prog = "watch" /\ run.pc = "refresh" /\ run.i <= Len(run.platforms)
  /\ \E s1 \in DispatchScripts(run.platforms[run.i],
                               MaxCalls("authenticate", run.platforms[run.i])),
        s2 \in DispatchScripts(run.platforms[run.i],
                               MaxCalls("getFeed", run.platforms[run.i])) :
       run' = Displayed(run, fetchFeed(run.env, run.platforms[run.i],
                                       s1, s2, DispatchNow))
  /\ UNCHANGED <<adapter, authSucceeded, last>>

\* loadFeed: the loading state is set
LoadFeedBegin ==
  /\ run.prog = "viewer" /\ run.pc = "refresh" /\ run.i <= Len(run.platforms)
  /\ run' = [run EXCEPT !.pc = "loading",
               !.feeds = [@ EXCEPT ![run.platforms[run.i]] =
                            [@ EXCEPT !.loading = TRUE, !.error = <<>>]]]
  /\ UNCHANGED <<adapter, authSucceeded, last>>

\* loadFeed: getPlatformInstance and getFeed in its try, the posts or the
\* error stored; then loadAllFeeds's next iteration
LoadFeedEnd ==
  /\ run.prog = "viewer" /\ run.pc = "loading"
  /\ \E s1 \in DispatchScripts(run.platforms[run.i],
                               MaxCalls("authenticate", run.platforms[run.i])),
        s2 \in DispatchScripts(run.platforms[run.i],
                               MaxCalls("getFeed", run.platforms[run.i])) :
       run' = Loaded(run, fetchFeed(run.env, run.platforms[run.i],
                                    s1, s2, DispatchNow))
  /\ UNCHANGED <<adapter, authSucceeded, last>>

\* displayFeed / loadAllFeeds has gone through its platforms
RefreshEnd ==
  /\ run.prog \in {"watch", "viewer"} /\ run.pc = "refresh"
  /\ run.i > Len(run.platforms)
  /\ run' = [run EXCEPT !.pc = "idle"]
  /\ UNCHANGED <<adapter, authSucceeded, last>>

\* the setInterval timer fires: the next displayFeed / loadAllFeeds
RefreshTimer ==
  /\ run.prog \in {"watch", "viewer"} /\ run.pc = "idle"
  /\ run.refresh < MaxRefreshes
  /\ run' = [run EXCEPT !.pc = "refresh", !.refresh = @ + 1, !.i = 1,
               !.log = <<>>]
  /\ UNCHANGED <<adapter, authSucceeded, last>>

NextDispatch ==
  \/ GetMultiplePlatformsStep
  \/ GetMultiplePlatformsEnd
  \/ HandlePostStep
  \/ HandlePostEnd
  \/ WatchStart
  \/ DisplayFeedStep
  \/ LoadFeedBegin
  \/ LoadFeedEnd
  \/ RefreshEnd
  \/ RefreshTimer

SpecDispatch == InitDispatch /\ [][NextDispatch]_vars

(***************************************************************************)
(* SpecSession: one adapter used against a vendor that keeps what it is    *)
(* sent.  run.vendor is how the vendor answers for the time being (NoError: *)
(* every request succeeds; else every request fails with that error),      *)
(* run.store the documents it holds, newest first, and run.prev the call   *)
(* made just before the last one, cleared when the vendor's behaviour      *)
(* changes.                                                                *)
(***************************************************************************)
\* the vendor keeps at most this many posted documents
MaxStored == 2

\* a vendor document: the fields the three vendors' post and read endpoints
\* carry ("" where absent)
NoDoc ==
  [text |-> "", caption |-> "", shareCommentary |-> "", text_text |-> "",
   commentary |-> ""]

\* the document post() submits: tweetData.text; the container's caption
\* parameter; postData...shareCommentary.text
Submitted(platform, options) ==
  CASE platform = "twitter" -> [NoDoc EXCEPT !.text = options.text]
    [] platform = "instagram" ->
         [NoDoc EXCEPT !.caption = StrOr(options.caption, options.text)]
    [] platform = "linkedin" ->
         [NoDoc EXCEPT !.shareCommentary = options.text]

\* the content the platform's mapper reads off a document: tweet.text;
\* media.caption || ''; post.text?.text || post.commentary || ''
ContentRead(platform, doc) ==
  CASE platform = "twitter" -> doc.text
    [] platform = "instagram" -> doc.caption
    [] platform = "linkedin" -> StrOr(doc.text_text, doc.commentary)

\* the page the vendor's feed endpoint returns for its store
StoredPage(platform, store) ==
  [i \in 1..Len(store) |->
     [id |-> ToString(i), text |-> ContentRead(platform, store[i])]]

\* the vendor's behaviour as one operation meets it
SessionScript(vendor, platform, store) ==
  [failAt |-> IF vendor = NoError THEN 0 ELSE 1,
   err |-> IF vendor = NoError THEN NetworkError ELSE vendor,
   items |-> StoredPage(platform, store)]

SessionPostOptions ==
  {[text |-> "hello", caption |-> c, mediaPath |-> MediaUrl,
    mediaUrls |-> <<MediaUrl>>, linkUrl |-> "", linkTitle |-> ""] :
     c \in {"", "look"}}

NoCall == [op |-> "none", ok |-> TRUE, a |-> NewAdapter("twitter", Config(FALSE, FALSE, FALSE, FALSE, FALSE, FALSE)), text |-> ""]

\* the call just made, as the next one finds it
Call(op, res, text) == [op |-> op, ok |-> res.ok, a |-> res.a, text |-> text]

SessionRuns(platform) ==
  {[prog |-> "session", vendor |-> v, store |-> <<>>, prev |-> NoCall,
    made |-> NoCall] :
     v \in {NoError} \cup DispatchErrors(platform)}

InitSession ==
  /\ adapter \in {NewAdapter(p, c) : p \in Platform, c \in Configs("twitter")
                    \cup Configs("instagram") \cup Configs("linkedin")}
  /\ adapter.config \in Configs(adapter.platform)
  /\ authSucceeded = FALSE
  /\ last = [op |-> "none", options |-> NoOptions, now |-> 0,
             authedBefore |-> FALSE, vendor |-> NoError, hitAt |-> 0,
             page |-> <<>>,
             ok |-> TRUE, err |-> NoError, val |-> NoVal, calls |-> <<>>,
             trail |-> <<>>]
  /\ run \in SessionRuns(adapter.platform)

\* the session after a call: the call before it, and the store
Called(r, op, res, text, store) ==
  [r EXCEPT !.prev = r.made, !.made = Call(op, res, text), !.store = store]

\* the adapter, the flag and the outcome after the operation's result
SessionStep(op, options, s, res) ==
  /\ adapter' = res.a
  /\ authSucceeded' = (authSucceeded \/ (op = "authenticate" /\ res.ok))
  /\ last' = Outcome(op, options, s, DispatchNow, res)

SessionAuthenticate ==
  /\ run.prog = "session"
  /\ SessionStep("authenticate", NoOptions,
                 SessionScript(run.vendor, adapter.platform, run.store),
                 authenticate(adapter,
                              SessionScript(run.vendor, adapter.platform,
                                            run.store), DispatchNow))
  /\ run' = Called(run, "authenticate",
                   authenticate(adapter,
                                SessionScript(run.vendor, adapter.platform,
                                              run.store), DispatchNow),
                   "", run.store)

\* the vendor's store after post(): the submitted document first, when the
\* post went through
Stored(platform, options, res, store) ==
  IF res.ok THEN <<Submitted(platform, options)>> \o store ELSE store

SessionPost ==
  /\ run.prog = "session"
  /\ Len(run.store) < MaxStored
  /\ \E options \in SessionPostOptions :
       /\ SessionStep("post", options,
                      SessionScript(run.vendor, adapter.platform, run.store),
                      post(adapter, options,
                           SessionScript(run.vendor, adapter.platform,
                                         run.store), DispatchNow))
       /\ run' = Called(run, "post",
                        post(adapter, options,
                             SessionScript(run.vendor, adapter.platform,
                                           run.store), DispatchNow),
                        options.text,
                        Stored(adapter.platform, options,
                               post(adapter, options,
                                    SessionScript(run.vendor, adapter.platform,
                                                  run.store), DispatchNow),
                               run.store))

SessionGetFeed ==
  /\ run.prog = "session"
  /\ SessionStep("getFeed", NoOptions,
                 SessionScript(run.vendor, adapter.platform, run.store),
                 getFeed(adapter,
                         SessionScript(run.vendor, adapter.platform, run.store),
                         DispatchNow))
  /\ run' = Called(run, "getFeed",
                   getFeed(adapter,
                           SessionScript(run.vendor, adapter.platform,
                                         run.store), DispatchNow),
                   "", run.store)

\* the vendor starts to answer differently
VendorChanges ==
  /\ run.prog = "session"
  /\ \E v \in {NoError} \cup DispatchErrors(adapter.platform) :
       /\ v # run.vendor
       /\ run' = [run EXCEPT !.vendor = v, !.prev = NoCall, !.made = NoCall]
  /\ UNCHANGED <<adapter, authSucceeded, last>>

NextSession ==
  \/ SessionAuthenticate
  \/ SessionPost
  \/ SessionGetFeed
  \/ VendorChanges

SpecSession == InitSession /\ [][NextSession]_vars

(***************************************************************************)
(* SpecConsole: the interactive console.  run holds the adapters main()    *)
(* initialised (platforms), the numbered posts (currentPosts, each with    *)
(* the adapter that returned it in by), displayFeed's place in its loop    *)
(* over the platforms (at, 0 when no displayFeed is running) and its local *)
(* postIndex, the post last printed under each index (displayed), and,     *)
(* when the last step was one, the like / retweet / reply / quote command  *)
(* or the getPlatformForPost call on a post of any platform (routed).      *)
(***************************************************************************)
\* a vendor that answers every request, with the page given
UpScript(items) == [failAt |-> 0, err |-> NetworkError, items |-> items]

\* main(): activePlatforms, then the instances that could be initialised;
\* down are the platforms whose getPlatformInstance threw
ConsoleActive(env, down) ==
  SelectSeq(CredentialedPlatforms(env),
            LAMBDA p : /\ p \notin down
                       /\ getPlatformInstance(env, p, UpScript(<<>>),
                                              DispatchNow).ok)

ConsolePlatforms(env, down) ==
  [j \in 1..Len(ConsoleActive(env, down)) |->
     getPlatformInstance(env, ConsoleActive(env, down)[j], UpScript(<<>>),
                         DispatchNow).a]

\* TwitterPlatform.getFollowingFeed
TwitterPlatform_getFollowingFeed(a, s, now) ==
  IF a.client = "null"
    THEN Throw(a, Plain(a, MsgNotAuthenticated), now, <<>>)
  ELSE IF Fails(s, <<>>)
    THEN Throw(a, s.err, now, <<"v2.homeTimeline">>)
  ELSE Ok(a, PostsVal(MapPage(a, s.items)), <<"v2.homeTimeline">>)

\* displayFeed's fetch: 'getFollowingFeed' in platform
\*   ? platform.getFollowingFeed(limit) : platform.getFeed({ limit })
FollowingOrFeed(a, s, now) ==
  IF getPlatform(a) = "twitter"
    THEN TwitterPlatform_getFollowingFeed(a, s, now)
    ELSE getFeed(a, s, now)

\* the posts an adapter returned, each with the adapter it came from
Shown(a, res) ==
  [k \in 1..Len(res.val.posts) |->
     [id |-> res.val.posts[k].id, platform |-> res.val.posts[k].platform,
      content |-> res.val.posts[k].content, by |-> getPlatform(a)]]

NoPost == [id |-> "", platform |-> "", content |-> "", by |-> ""]

\* getPlatformForPost with platforms.find replaced by platforms[0]
getPlatformForPost_firstPlatform(platforms, shown) ==
  [ok |-> Len(platforms) > 0, j |-> IF Len(platforms) > 0 THEN 1 ELSE 0,
   err |-> NoError]

\* getPlatformForPost: the place in platforms of the first adapter whose
\* getPlatform() is the post's platform, or the Error thrown
getPlatformForPost(platforms, shown) ==
  IF \E j \in 1..Len(platforms) : getPlatform(platforms[j]) = shown.platform
    THEN [ok |-> TRUE,
          j |-> CHOOSE j \in 1..Len(platforms) :
                  /\ getPlatform(platforms[j]) = shown.platform
                  /\ \A i \in 1..(j - 1) :
                       getPlatform(platforms[i]) # shown.platform,
          err |-> NoError]
    ELSE [ok |-> FALSE, j |-> 0,
          err |-> PlainError(<<"Platform", shown.platform, "not",
                               "available">>)]

ConsoleCommands == {"like", "retweet", "reply", "quote"}

\* what processCommand calls on the adapter it got for the post
CommandCall(cmd, a, shown, s, now) ==
  CASE cmd = "like" ->
         engage(a, [postId |-> shown.id, action |-> "like",
                    commentText |-> ""], s, now)
    [] cmd = "retweet" ->
         engage(a, [postId |-> shown.id, action |-> "retweet",
                    commentText |-> ""], s, now)
    [] cmd = "reply" ->
         engage(a, [postId |-> shown.id, action |-> "reply",
                    commentText |-> "nice"], s, now)
    [] cmd = "quote" ->
         post(a, [text |-> "hello", caption |-> "", mediaPath |-> "",
                  mediaUrls |-> <<>>, linkUrl |-> "", linkTitle |-> ""],
              s, now)

NoCommand ==
  [cmd |-> "none", n |-> 0, valid |-> FALSE, shown |-> NoPost,
   found |-> FALSE, on |-> "", postId |-> "", ok |-> FALSE, tags |-> <<>>,
   seen |-> NoPost]

\* 'Invalid post number': nothing is looked up or called
InvalidNumber(cmd, n) == [NoCommand EXCEPT !.cmd = cmd, !.n = n]

\* getPlatformForPost threw: processCommand's catch reports it
NotAvailable(cmd, n, shown) ==
  [NoCommand EXCEPT !.cmd = cmd, !.n = n, !.valid = TRUE, !.shown = shown]

\* the call went to adapter a; tags are the platforms of the posts it
\* returned (quote returns the post made)
Issued(cmd, n, shown, a, res) ==
  [cmd |-> cmd, n |-> n, valid |-> TRUE, shown |-> shown, found |-> TRUE,
   on |-> getPlatform(a), postId |-> shown.id, ok |-> res.ok,
   tags |-> [k \in 1..Len(res.val.posts) |-> res.val.posts[k].platform],
   seen |-> NoPost]

RoutedTo(cmd, n, shown, platforms, got, s, now) ==
  IF ~got.ok THEN NotAvailable(cmd, n, shown)
  ELSE Issued(cmd, n, shown, platforms[got.j],
              CommandCall(cmd, platforms[got.j], shown, s, now))

\* processCommand's like / retweet / reply / quote cases
Routed(cmd, n, r, s, now) ==
  IF n < 1 \/ n > Len(r.currentPosts) THEN InvalidNumber(cmd, n)
  ELSE RoutedTo(cmd, n, r.currentPosts[n], r.platforms,
                getPlatformForPost(r.platforms, r.currentPosts[n]), s, now)

\* the platform whose vendor answers the command, if it gets that far
RoutedPlatform(n, r) ==
  IF n < 1 \/ n > Len(r.currentPosts) THEN "twitter"
  ELSE IF ~getPlatformForPost(r.platforms, r.currentPosts[n]).ok
    THEN "twitter"
  ELSE getPlatform(r.platforms[getPlatformForPost(r.platforms,
                                                  r.currentPosts[n]).j])

\* getPlatformForPost alone: the adapter returned, or the Error thrown
Lookup(platforms, shown, got) ==
  IF got.ok /\ got.j \in 1..Len(platforms)
    THEN [NoCommand EXCEPT !.cmd = "lookup", !.valid = TRUE,
                           !.shown = shown, !.found = TRUE,
                           !.on = getPlatform(platforms[got.j]),
                           !.postId = shown.id]
    ELSE NotAvailable("lookup", 0, shown)

\* the command, with the post the screen last showed under its number
Seen(routed, n, displayed) ==
  [routed EXCEPT !.seen = IF n \in 1..Len(displayed) THEN displayed[n]
                                                     ELSE NoPost]

\* the screen after posts are printed under the numbers from on
Printed(displayed, from, posts) ==
  [i \in 1..(IF Len(displayed) > from - 1 + Len(posts)
               THEN Len(displayed) ELSE from - 1 + Len(posts)) |->
     IF i >= from /\ i < from + Len(posts) THEN posts[i - from + 1]
                                           ELSE displayed[i]]

\* the tweets of the user's own timeline
OwnItems(items) ==
  [i \in 1..Len(items) |-> [id |-> "own-" \o items[i].id,
                            text |-> items[i].text]]

\* TwitterPlatform.getMyPosts
TwitterPlatform_getMyPosts(a, s, now) ==
  IF a.client = "null"
    THEN Throw(a, Plain(a, MsgNotAuthenticated), now, <<>>)
  ELSE IF ~TwitterPlatform_getMe(a, s, now, <<>>).ok
    THEN Rethrow(a, TwitterPlatform_getMe(a, s, now, <<>>), now)
  ELSE IF Fails(s, <<"v2.me">>)
    THEN Throw(a, s.err, now, <<"v2.me", "v2.userTimeline">>)
  ELSE Ok(a, PostsVal(MapPage(a, OwnItems(s.items))),
          <<"v2.me", "v2.userTimeline">>)

\* the environments the console is started in
ConsoleEnvs ==
  {env \in Envs : env["twitter"].apiKey \/ ~env["twitter"].bearerToken}

ConsoleRuns ==
  {[prog |-> "console", platforms |-> ConsolePlatforms(env, down),
    currentPosts |-> <<>>, at |-> 0, postIndex |-> 1, displayed |-> <<>>,
    routed |-> NoCommand] :
     env \in ConsoleEnvs, down \in SUBSET Platform}

InitConsole ==
  /\ adapter = NewAdapter("twitter", Config(FALSE, FALSE, FALSE, FALSE, FALSE, FALSE))
  /\ authSucceeded = FALSE
  /\ last = [op |-> "none"]
  /\ run \in ConsoleRuns
  /\ Len(run.platforms) > 0

\* displayFeed starts: currentPosts = [], the screen is cleared,
\* postIndex = 1
ConsoleDisplayFeedBegin ==
  /\ run.prog = "console"
  /\ run.at = 0
  /\ run' = [run EXCEPT !.currentPosts = <<>>, !.at = 1, !.postIndex = 1,
                        !.displayed = <<>>, !.routed = NoCommand]
  /\ UNCHANGED <<adapter, authSucceeded, last>>

\* currentPosts after one platform's fetch: its posts pushed and printed
\* under postIndex and the numbers after it, or the error logged
Pushed(r, a, res) ==
  [r EXCEPT !.currentPosts = IF res.ok THEN @ \o Shown(a, res) ELSE @,
            !.displayed = IF res.ok
                            THEN Printed(@, r.postIndex, Shown(a, res))
                            ELSE @,
            !.postIndex = IF res.ok THEN @ + Len(res.val.posts) ELSE @,
            !.at = IF r.at = Len(r.platforms) THEN 0 ELSE r.at + 1,
            !.routed = NoCommand]

\* one iteration of displayFeed's loop over platforms
ConsoleDisplayFeedStep ==
  /\ run.prog = "console"
  /\ run.at \in 1..Len(run.platforms)
  /\ \E s \in DispatchScripts(getPlatform(run.platforms[run.at]), 2) :
       run' = Pushed(run, run.platforms[run.at],
                     FollowingOrFeed(run.platforms[run.at], s, DispatchNow))
  /\ UNCHANGED <<adapter, authSucceeded, last>>

\* currentPosts after the feed and following commands: posts assigned and
\* printed under 1..n, or the error logged
Assigned(r, a, res) ==
  [r EXCEPT !.currentPosts = IF res.ok THEN Shown(a, res) ELSE @,
            !.displayed = IF res.ok THEN Printed(@, 1, Shown(a, res)) ELSE @,
            !.routed = NoCommand]

\* the feed command: platforms[0].getFeed, currentPosts = posts; the
\* following command does the same with getFollowingFeed when platforms[0]
\* has it
ConsoleFeedCommand ==
  /\ run.prog = "console"
  /\ \E s \in DispatchScripts(getPlatform(run.platforms[1]), 2) :
       \/ run' = Assigned(run, run.platforms[1],
                          getFeed(run.platforms[1], s, DispatchNow))
       \/ /\ getPlatform(run.platforms[1]) = "twitter"
          /\ run' = Assigned(run, run.platforms[1],
                             TwitterPlatform_getFollowingFeed(
                               run.platforms[1], s, DispatchNow))
  /\ UNCHANGED <<adapter, authSucceeded, last>>

\* the screen after the myposts command: the posts printed under 1..n, or
\* the error logged; currentPosts is not assigned
Listed(r, a, res) ==
  [r EXCEPT !.displayed = IF res.ok THEN Printed(@, 1, Shown(a, res)) ELSE @,
            !.routed = NoCommand]

\* the myposts command: platforms[0].getMyPosts when platforms[0] has it
ConsoleMyPostsCommand ==
  /\ run.prog = "console"
  /\ getPlatform(run.platforms[1]) = "twitter"
  /\ \E s \in DispatchScripts("twitter", 2) :
       run' = Listed(run, run.platforms[1],
                     TwitterPlatform_getMyPosts(run.platforms[1], s,
                                                DispatchNow))
  /\ UNCHANGED <<adapter, authSucceeded, last>>

\* the vendor behaviours a command is run against: no page is read
CommandScripts(platform) ==
  {s \in DispatchScripts(platform, 1) :
     s.items = <<>> /\ s.err = NetworkError}

\* like <n>, retweet <n>, reply <n> <text>, quote <n> <text>
ConsoleEngageCommand ==
  /\ run.prog = "console"
  /\ \E cmd \in ConsoleCommands, n \in 0..(Len(run.currentPosts) + 1) :
       \E s \in CommandScripts(RoutedPlatform(n, run)) :
         run' = [run EXCEPT !.routed =
                   Seen(Routed(cmd, n, run, s, DispatchNow), n,
                        run.displayed)]
  /\ UNCHANGED <<adapter, authSucceeded, last>>

\* getPlatformForPost, on a post of any platform
ConsoleLookup ==
  /\ run.prog = "console"
  /\ \E p \in Platform :
       run' = [run EXCEPT !.routed =
                 Lookup(run.platforms,
                        [NoPost EXCEPT !.id = "1", !.platform = p, !.by = p],
                        getPlatformForPost(
                          run.platforms,
                          [NoPost EXCEPT !.id = "1", !.platform = p,
                                         !.by = p]))]
  /\ UNCHANGED <<adapter, authSucceeded, last>>

NextConsole ==
  \/ ConsoleDisplayFeedBegin
  \/ ConsoleDisplayFeedStep
  \/ ConsoleFeedCommand
  \/ ConsoleMyPostsCommand
  \/ ConsoleEngageCommand
  \/ ConsoleLookup

SpecConsole == InitConsole /\ [][NextConsole]_vars


(***************************************************************************)
(* SpecResolve: one call of parsePlatform.  run holds the string it is     *)
(* given (str), whether the call has been made (asked) and what it did     *)
(* (res).                                                                  *)
(***************************************************************************)
MaxShort == 2

\* the aliases parsePlatform compares with
Aliases(platform) ==
  CASE platform = "twitter" -> {TwitterName, <<"x">>}
    [] platform = "instagram" -> {InstagramName, <<"i", "g">>}
    [] platform = "linkedin" -> {LinkedInName, <<"l", "i">>}

\* the upper case of an ASCII letter
UpperLetter(c) ==
  IF \E i \in 1..Len(LowerLetters) : LowerLetters[i] = c
    THEN UpperLetters[CHOOSE i \in 1..Len(LowerLetters) : LowerLetters[i] = c]
    ELSE c

\* a lower-case word with the letters at the places in upper made capitals
Capitalised(word, upper) ==
  [i \in 1..Len(word) |-> IF i \in upper THEN UpperLetter(word[i])
                                         ELSE word[i]]

CaseVariants(word) ==
  {Capitalised(word, upper) : upper \in SUBSET (1..Len(word))}

\* word with its characters c replaced by d
Replaced(word, c, d) ==
  [i \in 1..Len(word) |-> IF word[i] = c THEN d ELSE word[i]]

ShortAlphabet == {"x", "X", "i", "g", "l", " "}

\* the strings parsePlatform is given: every capitalisation of every alias,
\* aliases written with non-ASCII capitals, every short string over a few
\* characters, and names that are no alias
ResolverInputs ==
  UNION {CaseVariants(w) : w \in UNION {Aliases(p) : p \in Platform}}
    \cup {Replaced(LinkedInName, "k", KelvinSign),
          Replaced(TwitterName, "i", CapitalDottedI),
          Replaced(<<"i", "g">>, "i", CapitalDottedI),
          FacebookName, TwitterName \o <<" ">>, <<" ">> \o TwitterName,
          SubSeq(TwitterName, 1, 4), TwitterName \o <<"x">>}
    \cup UNION {[1..n -> ShortAlphabet] : n \in 0..MaxShort}

NotResolved == [ok |-> FALSE, platform |-> "", err |-> NoError]

InitResolve ==
  /\ adapter = NewAdapter("twitter", Config(FALSE, FALSE, FALSE, FALSE, FALSE, FALSE))
  /\ authSucceeded = FALSE
  /\ last = [op |-> "none"]
  /\ run \in {[prog |-> "resolve", asked |-> FALSE, str |-> platformStr,
               res |-> NotResolved] : platformStr \in ResolverInputs}

\* parsePlatform(platformStr)
ParsePlatform ==
  /\ run.prog = "resolve" /\ ~run.asked
  /\ run' = [run EXCEPT !.asked = TRUE, !.res = parsePlatform(run.str)]
  /\ UNCHANGED <<adapter, authSucceeded, last>>

NextResolve == ParsePlatform

SpecResolve == InitResolve /\ [][NextResolve]_vars


(***************************************************************************)
(* SpecPublish: InstagramPlatform.post, request by request, on an          *)
(* authenticated adapter and options that carry a media URL.  run holds    *)
(* the place in post() (pc), its locals containerId and mediaId, the       *)
(* requests of the current call with what the vendor answered (log), how   *)
(* the call ended (outcome), the number of calls begun (n) and the         *)
(* containers and media the vendor holds (containers, published).          *)
(***************************************************************************)
MaxPosts == 2

\* the ids the vendor may answer with
VendorIds == {"17", "18"}

\* Step 1: client.post(`/${userId}/media`, null, {params: {image_url, ...}})
ContainerRequest(options) ==
  [req |-> "POST /{userId}/media",
   param |-> StrOr(FirstMediaUrl(options), options.mediaPath)]

\* Step 2 without the creation_id parameter
PublishRequest_withoutCreationId(containerId) ==
  [req |-> "POST /{userId}/media_publish", param |-> ""]

\* Step 2: client.post(`/${userId}/media_publish`, null,
\*                     {params: {creation_id: containerId}})
PublishRequest(containerId) ==
  [req |-> "POST /{userId}/media_publish", param |-> containerId]

\* Step 3: client.get(`/${mediaId}`, ...)
FetchRequest(mediaId) == [req |-> "GET /{mediaId}", param |-> mediaId]

\* this.getMe(): client.get(`/${userId}`, ...)
MeRequest == [req |-> "GET /{userId}", param |-> ""]

\* a request with the vendor's answer: its data.id when it answered
Answered(request, id) ==
  [req |-> request.req, param |-> request.param, ok |-> TRUE, id |-> id]

Rejected(request) ==
  [req |-> request.req, param |-> request.param, ok |-> FALSE, id |-> ""]

PublishOptions == {o \in PostOptionsSet : o.text = "hello" /\ o.linkUrl = ""
                                            /\ o.mediaPath # ""}

InitPublish ==
  /\ adapter = NewAdapter("twitter", Config(FALSE, FALSE, FALSE, FALSE, FALSE, FALSE))
  /\ authSucceeded = FALSE
  /\ last = [op |-> "none"]
  /\ run = [prog |-> "publish", pc |-> "idle", containerId |-> "",
            mediaId |-> "", log |-> <<>>, outcome |-> "none", n |-> 0,
            containers |-> {}, published |-> {}]

\* the catch block: handleError throws, post() is over
Thrown(r, request) ==
  [r EXCEPT !.pc = "idle", !.outcome = "thrown",
            !.log = Append(@, Rejected(request))]

\* post() is called and issues step 1
PublishBegin ==
  /\ run.prog = "publish" /\ run.pc = "idle" /\ run.n < MaxPosts
  /\ \E options \in PublishOptions :
       \/ \E id \in VendorIds :
            run' = [run EXCEPT !.pc = "publish", !.n = @ + 1,
                               !.outcome = "none", !.mediaId = "",
                               !.containerId = id,
                               !.log = <<Answered(ContainerRequest(options),
                                                  id)>>,
                               !.containers = @ \cup {id}]
       \/ run' = [Thrown([run EXCEPT !.log = <<>>],
                         ContainerRequest(options))
                    EXCEPT !.n = @ + 1, !.containerId = "", !.mediaId = ""]
  /\ UNCHANGED <<adapter, authSucceeded, last>>

\* step 2
PublishMedia ==
  /\ run.prog = "publish" /\ run.pc = "publish"
  /\ \/ \E id \in VendorIds :
          run' = [run EXCEPT !.pc = "fetch", !.mediaId = id,
                             !.log = Append(@, Answered(
                                        PublishRequest(run.containerId), id)),
                             !.published = @ \cup {id}]
     \/ run' = Thrown(run, PublishRequest(run.containerId))
  /\ UNCHANGED <<adapter, authSucceeded, last>>

\* step 3
FetchMedia ==
  /\ run.prog = "publish" /\ run.pc = "fetch"
  /\ \/ run' = [run EXCEPT !.pc = "getMe",
                           !.log = Append(@, Answered(
                                      FetchRequest(run.mediaId),
                                      run.mediaId))]
     \/ run' = Thrown(run, FetchRequest(run.mediaId))
  /\ UNCHANGED <<adapter, authSucceeded, last>>

\* const me = await this.getMe(); return mapInstagramMediaToPost(...)
PublishGetMe ==
  /\ run.prog = "publish" /\ run.pc = "getMe"
  /\ \/ run' = [run EXCEPT !.pc = "idle", !.outcome = "returned",
                           !.log = Append(@, Answered(MeRequest, MeId))]
     \/ run' = Thrown(run, MeRequest)
  /\ UNCHANGED <<adapter, authSucceeded, last>>

NextPublish ==
  \/ PublishBegin
  \/ PublishMedia
  \/ FetchMedia
  \/ PublishGetMe

SpecPublish == InitPublish /\ [][NextPublish]_vars


(***************************************************************************)
(* SpecViewer: the Ink viewer as concurrent tasks.  state is the React     *)
(* state; rendered is the activePlatforms the last render closed over,     *)
(* which is what the key handler and the interval read; tasks are the      *)
(* loadAllFeeds / loadFeed calls waiting on the vendor, in the order they  *)
(* were made.  A load's first setState runs with the call that starts it,  *)
(* its last setState with the vendor's answer, and the next platform of a  *)
(* loadAllFeeds starts in the same turn.  lastUpdated is whether a Date    *)
(* has been stored over the one of the mount.  A task's latest says that   *)
(* no load of its platform started after its own; current says, per        *)
(* platform, that the stored outcome was written by such a load.           *)
(***************************************************************************)
MaxPresses == 2

\* environments of the viewer: the Twitter credentials complete or absent,
\* none for LinkedIn
ViewerEnvs ==
  {env \in Envs : /\ env["twitter"].apiKey \/ ~env["twitter"].bearerToken
                  /\ env["twitter"].apiKey \/ ~env["twitter"].accessToken
                  /\ ~hasCredentials(env, "linkedin")}

\* what the vendor answers a viewer load with
ViewerScripts(platform) ==
  {s \in DispatchScripts(platform, 1) :
     IF s.failAt = 0 THEN Len(s.items) = MaxItems ELSE s.err = NetworkError}

NoPress == [key |-> "", before |-> <<>>, credentials |-> FALSE]

\* FeedViewer's useState, with nothing running yet
Mounted(env) ==
  [prog |-> "ink", pc |-> "start", env |-> env,
   activePlatforms |-> <<>>, rendered |-> <<>>,
   feeds |-> [p \in Platform |-> [posts |-> <<>>, loading |-> FALSE,
                                  error |-> <<>>]],
   lastUpdated |-> FALSE, tasks |-> <<>>,
   current |-> [p \in Platform |-> TRUE],
   refresh |-> 0, presses |-> 0, pressed |-> NoPress]

InitViewer ==
  /\ adapter = NewAdapter("twitter",
                          Config(FALSE, FALSE, FALSE, FALSE, FALSE, FALSE))
  /\ authSucceeded = FALSE
  /\ last = [op |-> "none"]
  /\ run \in {Mounted(env) : env \in ViewerEnvs}

\* the platform a task is loading
Loading(t) == t.platforms[t.i]

\* loadFeed up to its first await: loading is set, the error cleared; the
\* loads of the platform already waiting are no longer its latest
loadFeed_begin(r, platform) ==
  [r EXCEPT !.feeds = [@ EXCEPT ![platform] =
                         [@ EXCEPT !.loading = TRUE, !.error = <<>>]],
            !.tasks = [k \in 1..Len(@) |->
                         IF Loading(@[k]) = platform
                           THEN [@[k] EXCEPT !.latest = FALSE] ELSE @[k]]]

\* a call of loadAllFeeds(platforms) by the first effect, the interval or
\* 'r', or of loadFeed(platform) by a toggle, up to its first await
loadAllFeeds_begin(r, platforms, by) ==
  IF platforms = <<>>
    THEN [r EXCEPT !.lastUpdated = TRUE]
    ELSE [loadFeed_begin(r, platforms[1]) EXCEPT
            !.tasks = Append(@, [platforms |-> platforms, i |-> 1,
                                 by |-> by, latest |-> TRUE])]

\* the tasks without the k-th
Without(tasks, k) ==
  [j \in 1..(Len(tasks) - 1) |-> IF j < k THEN tasks[j] ELSE tasks[j + 1]]

\* loadFeed's last setState, by the k-th task
loadFeed_end(r, k, attempt) ==
  [r EXCEPT !.feeds = [@ EXCEPT ![attempt.platform] = attempt.shown],
            !.current = [@ EXCEPT ![attempt.platform] = r.tasks[k].latest],
            !.tasks = Without(@, k)]

\* loadAllFeeds after an awaited loadFeed: the next platform, or lastUpdated
loadAllFeeds_next(r, t) ==
  IF t.i < Len(t.platforms)
    THEN [loadFeed_begin(r, t.platforms[t.i + 1]) EXCEPT
            !.tasks = Append(@, [t EXCEPT !.i = @ + 1, !.latest = TRUE])]
    ELSE IF t.by # "toggle" THEN [r EXCEPT !.lastUpdated = TRUE] ELSE r

\* the vendor answers the load the k-th task waits on
LoadFeedSettled(r, k, attempt) ==
  loadAllFeeds_next(loadFeed_end(r, k, attempt), r.tasks[k])

\* togglePlatform's membership test, on the state of the render
togglePlatform_isActive(rendered, platform) ==
  \E i \in 1..Len(rendered) : rendered[i] = platform

\* togglePlatform, after its credentials check
togglePlatform(r, platform) ==
  IF togglePlatform_isActive(r.rendered, platform)
    THEN [r EXCEPT !.activePlatforms =
                     SelectSeq(@, LAMBDA p : p # platform)]
    ELSE loadAllFeeds_begin(
           [r EXCEPT !.activePlatforms = Append(@, platform)],
           <<platform>>, "toggle")

\* what a key press leaves for inspection
Pressed(r, platform) ==
  [key |-> platform, before |-> r.activePlatforms,
   credentials |-> hasCredentials(r.env, platform)]

\* the first effect: the platforms with credentials, exit or the first load
ViewerStart ==
  /\ run.prog = "ink" /\ run.pc = "start"
  /\ run' = IF CredentialedPlatforms(run.env) = <<>>
              THEN [run EXCEPT !.pc = "exit"]
              ELSE loadAllFeeds_begin(
                     [run EXCEPT !.pc = "run",
                        !.activePlatforms = CredentialedPlatforms(run.env)],
                     CredentialedPlatforms(run.env), "start")
  /\ UNCHANGED <<adapter, authSucceeded, last>>

\* React renders: the handlers and the interval close over the new state
ViewerRender ==
  /\ run.prog = "ink" /\ run.pc = "run"
  /\ run.rendered # run.activePlatforms
  /\ run' = [run EXCEPT !.rendered = run.activePlatforms]
  /\ UNCHANGED <<adapter, authSucceeded, last>>

\* the interval of the second effect fires
ViewerTimer ==
  /\ run.prog = "ink" /\ run.pc = "run"
  /\ run.rendered # <<>> /\ run.refresh < MaxRefreshes
  /\ run' = loadAllFeeds_begin([run EXCEPT !.refresh = @ + 1],
                               run.rendered, "interval")
  /\ UNCHANGED <<adapter, authSucceeded, last>>

\* useInput, 'r'
ViewerKeyRefresh ==
  /\ run.prog = "ink" /\ run.pc = "run"
  /\ run.presses < MaxPresses
  /\ run' = loadAllFeeds_begin([run EXCEPT !.presses = @ + 1],
                               run.rendered, "key")
  /\ UNCHANGED <<adapter, authSucceeded, last>>

\* useInput, '1' / '2' / '3'
ViewerKeyToggle ==
  /\ run.prog = "ink" /\ run.pc = "run"
  /\ run.presses < MaxPresses
  /\ \E platform \in Platform :
       run' = IF hasCredentials(run.env, platform)
                THEN togglePlatform(
                       [run EXCEPT !.presses = @ + 1,
                                   !.pressed = Pressed(run, platform)],
                       platform)
                ELSE [run EXCEPT !.presses = @ + 1,
                                 !.pressed = Pressed(run, platform)]
  /\ UNCHANGED <<adapter, authSucceeded, last>>

\* useInput, 'q': exit() unmounts the viewer and its state
ViewerKeyQuit ==
  /\ run.prog = "ink" /\ run.pc = "run"
  /\ run' = [Mounted(run.env) EXCEPT !.pc = "exit"]
  /\ UNCHANGED <<adapter, authSucceeded, last>>

\* a load's getPlatformInstance and getFeed settle
ViewerLoadFeedEnd ==
  /\ run.prog = "ink" /\ run.pc = "run"
  /\ \E k \in 1..Len(run.tasks) :
       \E s \in ViewerScripts(Loading(run.tasks[k])) :
         run' = LoadFeedSettled(run, k,
                  fetchFeed(run.env, Loading(run.tasks[k]), UpScript(<<>>),
                            s, DispatchNow))
  /\ UNCHANGED <<adapter, authSucceeded, last>>

NextViewer ==
  \/ ViewerStart
  \/ ViewerRender
  \/ ViewerTimer
  \/ ViewerKeyRefresh
  \/ ViewerKeyToggle
  \/ ViewerKeyQuit
  \/ ViewerLoadFeedEnd

SpecViewer == InitViewer /\ [][NextViewer]_vars

(***************************************************************************)
(* SpecStore: auth/storage.ts in one process.  A string is the sequence of *)
(* its characters, except that the name of an environment variable and a   *)
(* comment are one token each; the .env file is the sequence of its lines; *)
(* process.env is a function from the names that are set to their values;  *)
(* a PlatformConfig is a function from the fields it holds to their        *)
(* values.                                                                 *)
(***************************************************************************)
MaxSaves == 2

\* the fields saveCredentials writes for a platform, in its order
StoredFields(platform) ==
  CASE platform = "twitter" ->
         <<"apiKey", "apiSecret", "accessToken", "accessSecret", "bearerToken">>
    [] platform = "instagram" ->
         <<"accessToken", "userId", "appId", "apiSecret">>
    [] platform = "linkedin" ->
         <<"clientId", "clientSecret", "accessToken", "redirectUri">>

\* the variable a field is written to and read from
EnvName(platform, field) ==
  CASE platform = "twitter" /\ field = "apiKey" -> "TWITTER_API_KEY"
    [] platform = "twitter" /\ field = "apiSecret" -> "TWITTER_API_SECRET"
    [] platform = "twitter" /\ field = "accessToken" -> "TWITTER_ACCESS_TOKEN"
    [] platform = "twitter" /\ field = "accessSecret" -> "TWITTER_ACCESS_SECRET"
    [] platform = "twitter" /\ field = "bearerToken" -> "TWITTER_BEARER_TOKEN"
    [] platform = "instagram" /\ field = "accessToken" -> "INSTAGRAM_ACCESS_TOKEN"
    [] platform = "instagram" /\ field = "userId" -> "INSTAGRAM_USER_ID"
    [] platform = "instagram" /\ field = "appId" -> "INSTAGRAM_APP_ID"
    [] platform = "instagram" /\ field = "apiSecret" -> "INSTAGRAM_APP_SECRET"
    [] platform = "linkedin" /\ field = "clientId" -> "LINKEDIN_CLIENT_ID"
    [] platform = "linkedin" /\ field = "clientSecret" -> "LINKEDIN_CLIENT_SECRET"
    [] platform = "linkedin" /\ field = "accessToken" -> "LINKEDIN_ACCESS_TOKEN"
    [] platform = "linkedin" /\ field = "redirectUri" -> "LINKEDIN_REDIRECT_URI"

\* the comment line saveCredentials writes above a platform's variables
StoredComment(platform) ==
  CASE platform = "twitter" -> "# X/Twitter API Credentials"
    [] platform = "instagram" -> "# Instagram Graph API Credentials"
    [] platform = "linkedin" -> "# LinkedIn API Credentials"

\* line.startsWith(`${upperPlatform}_`), for a line that is already trimmed
StartsWithPlatform(line, platform) ==
  /\ line # <<>>
  /\ \E i \in 1..Len(StoredFields(platform)) :
       line[1] = EnvName(platform, StoredFields(platform)[i])

\* trimmed.startsWith('#')
StartsWithHash(line) ==
  line # <<>> /\ \E platform \in Platform : line[1] = StoredComment(platform)

\* String.prototype.trim
trim(s) ==
  LET inked == {i \in 1..Len(s) : s[i] # " "}
  IN  IF inked = {} THEN <<>>
      ELSE SubSeq(s, CHOOSE i \in inked : \A j \in inked : i <= j,
                     CHOOSE i \in inked : \A j \in inked : i >= j)

\* where the first '=' of a line is, 0 when there is none
FirstEquals(line) ==
  IF \E i \in 1..Len(line) : line[i] = "="
    THEN CHOOSE i \in 1..Len(line) :
           line[i] = "=" /\ \A j \in 1..(i - 1) : line[j] # "="
    ELSE 0

\* process.env[key] = value
SetEnv(env, key, value) ==
  [k \in DOMAIN env \cup {key} |-> IF k = key THEN value ELSE env[k]]

\* loadEnv's loop body on one line
loadEnv_line(env, line) ==
  IF trim(line) # <<>> /\ ~StartsWithHash(trim(line))
       /\ FirstEquals(trim(line)) > 1
    THEN SetEnv(env,
                trim(SubSeq(trim(line), 1, FirstEquals(trim(line)) - 1)),
                trim(SubSeq(trim(line), FirstEquals(trim(line)) + 1,
                            Len(trim(line)))))
    ELSE env

RECURSIVE loadEnv_lines(_, _)
\* loadEnv's loop over the lines of the file
loadEnv_lines(env, lines) ==
  IF lines = <<>> THEN env
  ELSE loadEnv_lines(loadEnv_line(env, Head(lines)), Tail(lines))

\* loadEnv: nothing without a file, else every line of it
loadEnv(env, file) ==
  IF file.exists THEN loadEnv_lines(env, file.lines) ELSE env

\* the lines saveCredentials writes for config: the comment, then a line for
\* every field that is present and not empty
RECURSIVE NewLines(_, _, _)
NewLines(platform, config, fields) ==
  IF fields = <<>> THEN <<>>
  ELSE (IF Head(fields) \in DOMAIN config /\ config[Head(fields)] # <<>>
          THEN <<<<EnvName(platform, Head(fields)), "=">>
                     \o config[Head(fields)]>>
          ELSE <<>>)
       \o NewLines(platform, config, Tail(fields))

\* saveCredentials: the file it writes
saveCredentials(file, platform, config) ==
  [exists |-> TRUE,
   lines |-> SelectSeq(IF file.exists THEN file.lines ELSE << <<>> >>,
                       LAMBDA line : ~StartsWithPlatform(trim(line), platform))
             \o << <<>>, <<StoredComment(platform)>> >>
             \o NewLines(platform, config, StoredFields(platform))]

\* the object getCredentials builds from process.env: a field is there when
\* its variable is set, and Twitter's accessToken always
ReadConfig(env, platform) ==
  [field \in {f \in {StoredFields(platform)[i] :
                       i \in 1..Len(StoredFields(platform))} :
                \/ <<EnvName(platform, f)>> \in DOMAIN env
                \/ platform = "twitter" /\ f = "accessToken"} |->
     IF <<EnvName(platform, field)>> \in DOMAIN env
       THEN env[<<EnvName(platform, field)>>] ELSE <<>>]

\* a variable is set and not empty
EnvSet(env, platform, field) ==
  /\ <<EnvName(platform, field)>> \in DOMAIN env
  /\ env[<<EnvName(platform, field)>>] # <<>>

\* getCredentials after its loadEnv: null, or the config
ReadCredentials(env, platform) ==
  IF CASE platform = "twitter" -> ~EnvSet(env, platform, "accessToken")
                                    /\ ~EnvSet(env, platform, "bearerToken")
       [] platform = "instagram" -> ~EnvSet(env, platform, "accessToken")
                                      \/ ~EnvSet(env, platform, "userId")
       [] platform = "linkedin" -> ~EnvSet(env, platform, "accessToken")
    THEN [isNull |-> TRUE, config |-> <<>>]
    ELSE [isNull |-> FALSE, config |-> ReadConfig(env, platform)]

\* getCredentials of storage.ts: what it returns
storage_getCredentials(env, file, platform) ==
  ReadCredentials(loadEnv(env, file), platform)

\* the values given to accessToken, and to every other field
TokenValues == {<<"a">>, <<"b">>, <<"a", "=", "b">>, <<"a", " ">>}

FieldValue == <<"k">>

\* the sets of fields a config holds besides accessToken
StoredShapes(platform) ==
  CASE platform = "twitter" ->
         {{"apiKey", "apiSecret", "accessSecret"}, {"bearerToken"}, {}}
    [] platform = "instagram" -> {{"userId"}, {"userId", "appId", "apiSecret"}}
    [] platform = "linkedin" ->
         {{}, {"clientId", "clientSecret", "redirectUri"}}

\* the configs given to saveCredentials: with the platform's required fields
StoredConfigs(platform) ==
  {[field \in shape \cup {"accessToken"} |->
      IF field = "accessToken" THEN token ELSE FieldValue] :
     shape \in StoredShapes(platform), token \in TokenValues}
  \cup (IF platform = "twitter"
          THEN {[field \in {"accessToken", "bearerToken"} |->
                   IF field = "accessToken" THEN <<>> ELSE FieldValue]}
          ELSE {})

NoSave == [platform |-> "", config |-> <<>>]

NoResult == [isNull |-> TRUE, config |-> <<>>]

InitStore ==
  /\ adapter = NewAdapter("twitter",
                          Config(FALSE, FALSE, FALSE, FALSE, FALSE, FALSE))
  /\ authSucceeded = FALSE
  /\ last = [op |-> "none"]
  /\ run = [prog |-> "store", file |-> [exists |-> FALSE, lines |-> <<>>],
            env |-> <<>>, saves |-> 0, saved |-> NoSave,
            others |-> [q \in Platform |-> NoResult],
            got |-> [platform |-> "", result |-> NoResult]]

\* what a save leaves: the file, the call, and what getCredentials returned
\* for every platform just before it
Saved(r, platform, config) ==
  [r EXCEPT !.file = saveCredentials(r.file, platform, config),
            !.saves = @ + 1,
            !.saved = [platform |-> platform, config |-> config],
            !.others = [q \in Platform |->
                          storage_getCredentials(r.env, r.file, q)],
            !.got = [platform |-> "", result |-> NoResult]]

\* saveCredentials(platform, config)
StoreSave ==
  /\ run.prog = "store" /\ run.saves < MaxSaves
  /\ \E platform \in Platform :
       \E config \in StoredConfigs(platform) :
         run' = Saved(run, platform, config)
  /\ UNCHANGED <<adapter, authSucceeded, last>>

\* getCredentials(platform): process.env keeps what loadEnv put there
StoreGet ==
  /\ run.prog = "store"
  /\ \E platform \in Platform :
       run' = [run EXCEPT
                 !.env = loadEnv(run.env, run.file),
                 !.got = [platform |-> platform,
                          result |-> storage_getCredentials(run.env, run.file,
                                                            platform)]]
  /\ UNCHANGED <<adapter, authSucceeded, last>>

NextStore ==
  \/ StoreSave
  \/ StoreGet

SpecStore == InitStore /\ [][NextStore]_vars

(***************************************************************************)
(* SpecQuote: main() of the quote-mentions tool.  i and batchIndex are the *)
(* loop variables; log holds, for every client.v2.tweet call, the pair it  *)
(* was made for and how the vendor answered; limited counts the 429        *)
(* answers, which the vendor stops giving after MaxRateLimits.             *)
(***************************************************************************)
REPLIES_LIMIT == 3

MENTIONS_PER_BATCH == 40

MaxRateLimits == 2

\* the numbers of handles read from the file
HandleCounts == {0, 1, MENTIONS_PER_BATCH, MENTIONS_PER_BATCH + 1}

RECURSIVE Batches(_, _)
\* the batching loop from index i on: the sizes of the slices it pushes
Batches(handles, i) ==
  IF i < handles
    THEN <<IF handles - i < MENTIONS_PER_BATCH
             THEN handles - i ELSE MENTIONS_PER_BATCH>>
         \o Batches(handles, i + MENTIONS_PER_BATCH)
    ELSE <<>>

\* the errors client.v2.tweet throws
QuoteErrors ==
  {SdkError(429, Undefined, Undefined, Undefined, Undefined),
   SdkError(403, Undefined, Undefined, Undefined, Undefined),
   NetworkError}

\* the catch without its retry: batchIndex as it is
quote_catch_noRetry(batchIndex, error) == batchIndex

\* the catch of the inner loop: batchIndex as it leaves it
quote_catch(batchIndex, error) ==
  IF error.code = JsNum(429) THEN batchIndex - 1 ELSE batchIndex

\* the loops' heads, with batchIndex already incremented: the next pair, or
\* the end of main
quote_loop(r, batchIndex) ==
  IF batchIndex < Len(r.batches)
    THEN [r EXCEPT !.pc = "tweet", !.batchIndex = batchIndex]
    ELSE IF r.i + 1 < r.tweets /\ Len(r.batches) > 0
      THEN [r EXCEPT !.pc = "tweet", !.i = @ + 1, !.batchIndex = 0]
      ELSE [r EXCEPT !.pc = "done", !.i = r.tweets, !.batchIndex = 0]

\* what a call of client.v2.tweet is logged as
Attempted(r, ok, error) ==
  [i |-> r.i, batchIndex |-> r.batchIndex, ok |-> ok,
   code |-> IF ok THEN Undefined ELSE error.code]

\* after the tweet was posted: quoteCount, and the 2 seconds unless this
\* was the last pair
quote_posted(r) ==
  IF r.batchIndex < Len(r.batches) - 1 \/ r.i < r.tweets - 1
    THEN [r EXCEPT !.pc = "delay", !.quoteCount = @ + 1,
                   !.resume = r.batchIndex + 1,
                   !.log = Append(@, Attempted(r, TRUE, NetworkError))]
    ELSE [quote_loop(r, r.batchIndex + 1) EXCEPT
            !.quoteCount = @ + 1,
            !.log = Append(@, Attempted(r, TRUE, NetworkError))]

\* after the tweet threw: the 60 seconds and the same batch on 429, else on
\* to the next
quote_failed(r, error) ==
  IF error.code = JsNum(429)
    THEN [r EXCEPT !.pc = "delay", !.limited = @ + 1,
                   !.resume = quote_catch(r.batchIndex, error) + 1,
                   !.log = Append(@, Attempted(r, FALSE, error))]
    ELSE [quote_loop(r, quote_catch(r.batchIndex, error) + 1) EXCEPT
            !.log = Append(@, Attempted(r, FALSE, error))]

InitQuote ==
  /\ adapter = NewAdapter("twitter",
                          Config(FALSE, FALSE, FALSE, FALSE, FALSE, FALSE))
  /\ authSucceeded = FALSE
  /\ last = [op |-> "none"]
  /\ run = [prog |-> "quote", pc |-> "start", tweets |-> 0, batches |-> <<>>,
            i |-> 0, batchIndex |-> 0, resume |-> 0, quoteCount |-> 0,
            limited |-> 0, log |-> <<>>]

\* userByUsername, userMentionTimeline or the handles file throws: the
\* outer catch exits
QuoteStartFails ==
  /\ run.prog = "quote" /\ run.pc = "start"
  /\ run' = [run EXCEPT !.pc = "exit"]
  /\ UNCHANGED <<adapter, authSucceeded, last>>

\* the mentions and the handles are there: return without mentions, else
\* the batches and the first pair
QuoteStart ==
  /\ run.prog = "quote" /\ run.pc = "start"
  /\ \E tweets \in 0..REPLIES_LIMIT, handles \in HandleCounts :
       run' = IF tweets = 0
                THEN [run EXCEPT !.pc = "done"]
                ELSE quote_loop([run EXCEPT !.tweets = tweets,
                                            !.batches = Batches(handles, 0)],
                                0)
  /\ UNCHANGED <<adapter, authSucceeded, last>>

\* client.v2.tweet returns
QuoteTweetPosted ==
  /\ run.prog = "quote" /\ run.pc = "tweet"
  /\ run' = quote_posted(run)
  /\ UNCHANGED <<adapter, authSucceeded, last>>

\* client.v2.tweet throws
QuoteTweetFails ==
  /\ run.prog = "quote" /\ run.pc = "tweet"
  /\ \E error \in QuoteErrors :
       /\ error.code = JsNum(429) => run.limited < MaxRateLimits
       /\ run' = quote_failed(run, error)
  /\ UNCHANGED <<adapter, authSucceeded, last>>

\* the awaited delay is over
QuoteDelayEnd ==
  /\ run.prog = "quote" /\ run.pc = "delay"
  /\ run' = [quote_loop(run, run.resume) EXCEPT !.resume = 0]
  /\ UNCHANGED <<adapter, authSucceeded, last>>

NextQuote ==
  \/ QuoteStartFails
  \/ QuoteStart
  \/ QuoteTweetPosted
  \/ QuoteTweetFails
  \/ QuoteDelayEnd

\* every awaited call and timer settles
SpecQuote == InitQuote /\ [][NextQuote]_vars /\ WF_vars(NextQuote)

(***************************************************************************)
(* SpecOAuth: startOAuthServer.  promise is the promise it returns, which  *)
(* only its first resolve or reject settles; listening is whether the      *)
(* server accepts connections; a request may still arrive after close() on *)
(* a connection opened before it.  A query parameter is Undefined when     *)
(* searchParams.get returns null, else the string.  log holds the requests *)
(* and the timeout in the order they were handled.                         *)
(***************************************************************************)
MaxRequests == 3

\* what searchParams.get gives for code and for error
CodeParams == {Undefined, JsStr(""), JsStr("c1"), JsStr("c2")}

ErrorParams == {Undefined, JsStr(""), JsStr("access_denied")}

Pending == [state |-> "pending", value |-> <<>>]

\* reject(new Error(`OAuth error: ${error}`))
OAuthError(error) ==
  [state |-> "rejected", value |-> <<"OAuth", "error", ":", error.s>>]

\* reject(new Error('OAuth timeout: ...'))
OAuthTimeoutError ==
  [state |-> "rejected",
   value |-> <<"OAuth", "timeout", ":", "No", "response", "received",
               "within", "5", "minutes">>]

\* resolve(code)
OAuthCode(code) == [state |-> "resolved", value |-> <<code.s>>]

\* resolve and reject of a promise: the first one settles it
settle(promise, outcome) ==
  IF promise.state = "pending" THEN outcome ELSE promise

\* the request handler with its two tests swapped
callback_codeFirst(code, error) ==
  IF Truthy(code) THEN [status |-> 200, close |-> TRUE, outcome |-> OAuthCode(code)]
  ELSE IF Truthy(error)
    THEN [status |-> 400, close |-> TRUE, outcome |-> OAuthError(error)]
    ELSE [status |-> 404, close |-> FALSE, outcome |-> Pending]

\* the request handler: the status it answers with, whether it closes the
\* server, what it settles the promise with
callback(code, error) ==
  IF Truthy(error)
    THEN [status |-> 400, close |-> TRUE, outcome |-> OAuthError(error)]
  ELSE IF Truthy(code)
    THEN [status |-> 200, close |-> TRUE, outcome |-> OAuthCode(code)]
    ELSE [status |-> 404, close |-> FALSE, outcome |-> Pending]

\* the state after a request was handled
Handled(r, code, error, did) ==
  [r EXCEPT !.listening = @ /\ ~did.close,
            !.promise = IF did.close THEN settle(@, did.outcome) ELSE @,
            !.status = did.status,
            !.requests = @ + 1,
            !.log = Append(@, [kind |-> "request", code |-> code,
                               error |-> error])]

InitOAuth ==
  /\ adapter = NewAdapter("twitter",
                          Config(FALSE, FALSE, FALSE, FALSE, FALSE, FALSE))
  /\ authSucceeded = FALSE
  /\ last = [op |-> "none"]
  /\ run = [prog |-> "oauth", listening |-> TRUE, promise |-> Pending,
            timer |-> "armed", status |-> 0, requests |-> 0, log |-> <<>>]

\* a request reaches the server
OAuthRequest ==
  /\ run.prog = "oauth" /\ run.requests < MaxRequests
  /\ \E code \in CodeParams, error \in ErrorParams :
       run' = Handled(run, code, error, callback(code, error))
  /\ UNCHANGED <<adapter, authSucceeded, last>>

\* the setTimeout fires: it is never cleared
OAuthTimeout ==
  /\ run.prog = "oauth" /\ run.timer = "armed"
  /\ run' = [run EXCEPT !.timer = "fired", !.listening = FALSE,
               !.promise = settle(@, OAuthTimeoutError),
               !.log = Append(@, [kind |-> "timeout", code |-> Undefined,
                                  error |-> Undefined])]
  /\ UNCHANGED <<adapter, authSucceeded, last>>

NextOAuth ==
  \/ OAuthRequest
  \/ OAuthTimeout

\* the timer fires
SpecOAuth == InitOAuth /\ [][NextOAuth]_vars /\ WF_vars(OAuthTimeout)

(***************************************************************************)
(* The error taxonomy, read off a thrown error.  The code tags a class     *)
(* only through statusCode; an unsupported operation is told by its        *)
(* message.                                                                *)
(***************************************************************************)
ContractCalls == {"getMe", "getFeed", "post", "engage", "search"}

Classified == {401, 402, 403, 429}

\* the message holds the word
Mentions(message, word) == \E i \in 1..Len(message) : message[i] = word

IsUnsupportedOperation(e) ==
  /\ e.built = "createError"
  /\ e.statusCode = Undefined
  /\ \/ Mentions(e.message, "Unsupported")
     \/ Mentions(e.message, "support")

IsNotAuthenticated(e) ==
  /\ e.built = "createError"
  /\ e.statusCode = Undefined
  /\ e.message = MsgNotAuthenticated

\* the engagement actions the platform's adapter has no request for
UnsupportedActions(platform) ==
  CASE platform = "instagram" -> {"like", "share", "retweet"}
    [] platform = "twitter" -> {"share"}
    [] platform = "linkedin" -> {"retweet"}

\* C1: while authenticate() has not succeeded on the adapter, each of getMe,
\* getFeed, post, engage and search fails with an AuthenticationFailed error
\* (status 401).
C1_PreAuthIsAuthenticationFailed ==
  (last.op \in ContractCalls /\ ~authSucceeded)
    => (~last.ok /\ last.err.statusCode = JsNum(401))

\* C2: every error an operation throws was built by createError and carries
\* the platform of the adapter that threw it; no vendor error object escapes.
C2_OnlyPlatformErrorsEscape ==
  (last.op # "none" /\ ~last.ok)
    => /\ last.err.built = "createError"
       /\ last.err.platform = JsStr(getPlatform(adapter))

\* C2 witness: an operation ran into a vendor failure without any HTTP
\* status and threw.
C2_Witness ==
  /\ ~last.ok
  /\ last.vendor = NetworkError
  /\ last.err.message = NetworkError.message

\* C3: a vendor failure with HTTP status 401, 402, 403 or 429, in the Twitter
\* SDK's shape or in axios's, is thrown as the error of that status.
C3_ClassificationIsTotal ==
  (last.vendor.built = "vendor" /\ VendorStatus(last.vendor).n \in Classified)
    => (~last.ok /\ last.err.statusCode = VendorStatus(last.vendor))

C5_RateLimitResetIsVendorsOrDefault ==
  (~last.ok /\ last.err.statusCode = JsNum(429)
     /\ last.vendor.built = "vendor")
    => last.err.rateLimitReset =
         IF Truthy(last.vendor.rateLimit_reset)
           THEN JsNum(last.vendor.rateLimit_reset.n * 1000)
           ELSE JsNum(last.now + FifteenMinutes)

\* C6: a thrown error carries a rateLimitReset exactly when its status is
\* 429; an error classified from a 402 has status 402 and no rateLimitReset.
C6_ResetOnlyOnRateLimited ==
  (last.op # "none" /\ ~last.ok)
    => /\ (last.err.rateLimitReset # Undefined)
            <=> (last.err.statusCode = JsNum(429))
       /\ \A i \in 1..Len(last.trail) :
            HasStatus(last.trail[i].in, 402)
              => /\ last.trail[i].out.statusCode = JsNum(402)
                 /\ last.trail[i].out.rateLimitReset = Undefined

\* C6 witness: an operation failed on a vendor 402 and threw status 402.
C6_Witness ==
  /\ ~last.ok
  /\ last.vendor.code = JsNum(402)
  /\ last.err.statusCode = JsNum(402)
  /\ last.err.rateLimitReset = Undefined

\* C7: on an authenticated adapter (with write access, on Twitter), engage
\* with an action the platform does not support fails, when no vendor request
\* fails, with an UnsupportedOperation error whose message names the action;
\* like on such a Twitter adapter returns.
C7_UnsupportedActionIsNamed ==
  (/\ last.op = "engage"
   /\ authSucceeded
   /\ adapter.platform = "twitter" => adapter.readWriteClient
   /\ last.vendor = NoError)
    => /\ last.options.action \in UnsupportedActions(adapter.platform)
            => /\ ~last.ok
               /\ IsUnsupportedOperation(last.err)
               /\ Mentions(last.err.message, last.options.action)
       /\ (adapter.platform = "twitter" /\ last.options.action = "like")
            => last.ok

\* C8 as written: search on LinkedIn and on Instagram fails with an
\* UnsupportedOperation error in every state, and issues no vendor request.
C8_SearchAlwaysUnsupported ==
  (last.op = "search" /\ adapter.platform \in {"linkedin", "instagram"})
    => (~last.ok /\ IsUnsupportedOperation(last.err) /\ last.calls = <<>>)

\* C8 amended: search on LinkedIn and on Instagram never returns and issues
\* no vendor request; it fails with the UnsupportedOperation error once
\* authenticate() has built the client, and with the 'Not authenticated'
\* error before.  Search on a Twitter adapter with a client returns the
\* mapped vendor results when its request succeeds.
C8_SearchUnsupportedOnceClientBuilt ==
  last.op = "search"
    => IF adapter.platform \in {"linkedin", "instagram"}
         THEN /\ ~last.ok
              /\ last.calls = <<>>
              /\ IF adapter.client = "null"
                   THEN IsNotAuthenticated(last.err)
                   ELSE IsUnsupportedOperation(last.err)
                          /\ Mentions(last.err.message, "search")
         ELSE (adapter.client # "null" /\ last.vendor = NoError)
                => /\ last.ok
                   /\ last.calls = <<"v2.search">>
                   /\ last.val.posts = MapPage(adapter, last.page)
                   /\ \A i \in 1..Len(last.val.posts) :
                        last.val.posts[i].platform = "twitter"

\* C8 witness: search was refused as unsupported on a LinkedIn adapter whose
\* authenticate() had succeeded.
C8_Witness ==
  /\ last.op = "search"
  /\ adapter.platform = "linkedin"
  /\ authSucceeded
  /\ IsUnsupportedOperation(last.err)

\* the words of the request all name a platform
AllKnown(strs) == \A j \in 1..Len(strs) : parsePlatform(strs[j]).ok

\* C9: a finished post command holds, for a request naming platforms, one
\* record per requested platform, tagged with it and with success or the
\* error; it does not end by throwing.
C9_OneRecordPerRequestedPlatform ==
  (run.prog = "post" /\ run.pc \in {"done", "exit"} /\ AllKnown(run.strs))
    => /\ run.pc = "done"
       /\ Len(run.results) = Len(run.strs)
       /\ \A j \in 1..Len(run.strs) :
            /\ run.results[j].platform = parsePlatform(run.strs[j]).platform
            /\ run.results[j].success \/ run.results[j].error # <<>>

\* C10: in the post command, post() has been invoked exactly once, in order,
\* on every initialised adapter the loop has passed, and on all of them when
\* the command is done, whatever the earlier ones did; a finished refresh of
\* the watcher or the viewer has attempted every active platform, in order,
\* and invoked getFeed on each whose own getPlatformInstance succeeded.
C10_NoFailureAbortsAnother ==
  /\ (run.prog = "post" /\ run.pc = "post")
       => run.postCalls = [j \in 1..(run.i - 1) |-> j]
  /\ (run.prog = "post" /\ run.pc = "done")
       => /\ run.postCalls = [j \in 1..Len(run.platforms) |-> j]
          /\ Len(run.results) = Len(run.platforms)
  /\ (run.prog \in {"watch", "viewer"} /\ run.pc = "idle")
       => /\ Len(run.log) = Len(run.platforms)
          /\ \A j \in 1..Len(run.platforms) :
               /\ run.log[j].platform = run.platforms[j]
               /\ run.log[j].getFeed = run.log[j].instance

\* C10 witness: a post command is done whose first adapter's post() threw
\* and whose second adapter's post() returned.
C10_Witness ==
  /\ run.prog = "post" /\ run.pc = "done"
  /\ Len(run.results) = 2
  /\ ~run.results[1].success
  /\ run.results[2].success

\* the required field the operation's options lack, on the platform
MissingRequired(platform, op, options) ==
  \/ /\ op = "post"
     /\ CASE platform = "twitter" -> options.text = ""
          [] platform = "instagram" ->
               options.mediaPath = "" /\ FirstMediaUrl(options) = ""
          [] platform = "linkedin" -> options.text = "" /\ options.linkUrl = ""
  \/ /\ op = "engage"
     /\ options.action \in {"comment", "reply"}
     /\ options.commentText = ""

\* the error says a field is required
IsValidationFailed(e) ==
  /\ e.built = "createError"
  /\ e.statusCode = Undefined
  /\ Mentions(e.message, "required") \/ Mentions(e.message, "requires")

\* C11: on an authenticated adapter (with write access, on Twitter), post or
\* engage with a required field missing throws its validation error and has
\* issued no vendor request.
C11_ValidationBeforeAnyRequest ==
  (/\ last.op \in {"post", "engage"}
   /\ authSucceeded
   /\ adapter.platform = "twitter" => adapter.readWriteClient
   /\ MissingRequired(adapter.platform, last.op, last.options))
    => /\ ~last.ok
       /\ last.calls = <<>>
       /\ IsValidationFailed(last.err)

\* the error InstagramPlatform.post throws for absent media
MsgInstagramRequiresMedia ==
  <<"Instagram", "requires", "an", "image", "or", "video", "URL", "to", "post">>

\* C12 as written: post on an Instagram adapter, with neither mediaPath nor
\* a first mediaUrls entry, fails with an UnsupportedOperation error and
\* issues no vendor request, whatever the text and caption.
C12_InstagramPostWithoutMediaUnsupported ==
  (/\ last.op = "post"
   /\ adapter.platform = "instagram"
   /\ last.options.mediaPath = "" /\ FirstMediaUrl(last.options) = "")
    => /\ ~last.ok
       /\ last.calls = <<>>
       /\ IsUnsupportedOperation(last.err)

\* C12 amended: such a post never returns and issues no vendor request (no
\* media container is created, nothing is published), whatever the text and
\* caption; it fails with the validation error 'Instagram requires an image
\* or video URL to post' once authenticate() has built the client, and with
\* the 'Not authenticated' error before.
C12_InstagramPostWithoutMediaRefused ==
  (/\ last.op = "post"
   /\ adapter.platform = "instagram"
   /\ last.options.mediaPath = "" /\ FirstMediaUrl(last.options) = "")
    => /\ ~last.ok
       /\ last.calls = <<>>
       /\ IF adapter.client = "null"
            THEN IsNotAuthenticated(last.err)
            ELSE /\ IsValidationFailed(last.err)
                 /\ last.err.message = MsgInstagramRequiresMedia

\* C12 witness: an authenticated Instagram adapter refused a post of the
\* text "hello" that carried no media.
C12_Witness ==
  /\ last.op = "post"
  /\ adapter.platform = "instagram"
  /\ authSucceeded
  /\ last.options.text = "hello"
  /\ last.options.mediaPath = "" /\ FirstMediaUrl(last.options) = ""
  /\ last.err.message = MsgInstagramRequiresMedia

\* C13: while no authenticate() call on the adapter has succeeded, whether
\* none was made or each one failed, getMe, getFeed, post, engage and search
\* fail and issue no vendor request.
C13_NoRequestBeforeAuthentication ==
  (last.op \in ContractCalls /\ ~authSucceeded)
    => (~last.ok /\ last.calls = <<>>)

\* C14: when authenticate() is called twice in succession, the credentials
\* and the vendor's answers unchanged, the second call ends as the first did
\* (it throws nothing when the first returned) and leaves the adapter, its
\* client, write capability, profileId and config, as the first left it.
C14_AuthenticateIsIdempotent ==
  (/\ run.prog = "session"
   /\ run.made.op = "authenticate" /\ run.prev.op = "authenticate")
    => /\ run.made.ok = run.prev.ok
       /\ run.made.a = run.prev.a
       /\ adapter = run.prev.a

\* C14 witness: authenticate() returned twice in succession on a LinkedIn
\* adapter, which holds the profileId.
C14_Witness ==
  /\ run.prog = "session"
  /\ run.made.op = "authenticate" /\ run.prev.op = "authenticate"
  /\ run.prev.ok /\ run.made.ok
  /\ adapter.platform = "linkedin"
  /\ Truthy(adapter.profileId)

\* C15: a post() of the text "hello" that returns yields a Post with content
\* "hello" and the adapter's platform, and a getFeed() that returns right
\* after it holds such a Post.
C15_PostThenFeedRoundTrip ==
  /\ (run.prog = "session" /\ run.made.op = "post" /\ run.made.ok
        /\ run.made.text = "hello")
       => /\ last.val.posts[1].content = "hello"
          /\ last.val.posts[1].platform = adapter.platform
  /\ (run.prog = "session" /\ run.made.op = "getFeed" /\ run.made.ok
        /\ run.prev.op = "post" /\ run.prev.ok /\ run.prev.text = "hello")
       => \E i \in 1..Len(last.val.posts) :
            /\ last.val.posts[i].content = "hello"
            /\ last.val.posts[i].platform = adapter.platform

\* C16: every post in the console's numbered list, and every post a quote
\* command's post() returned, carries the platform of the adapter that
\* returned it, and a like / retweet / reply / quote on a
\* numbered post is issued on the adapter whose platform is the post's tag,
\* and getPlatformForPost returns the adapter whose platform is the tag of
\* the post it is given, or throws when no initialised adapter has it.
C16_CommandsRouteByPlatformTag ==
  run.prog = "console" =>
    /\ \A k \in 1..Len(run.currentPosts) :
         run.currentPosts[k].platform = run.currentPosts[k].by
    /\ (run.routed.cmd # "none" /\ run.routed.valid) =>
         IF \E j \in 1..Len(run.platforms) :
              getPlatform(run.platforms[j]) = run.routed.shown.platform
           THEN /\ run.routed.found
                /\ run.routed.on = run.routed.shown.platform
                /\ run.routed.postId = run.routed.shown.id
                /\ \A k \in 1..Len(run.routed.tags) :
                     run.routed.tags[k] = run.routed.on
           ELSE ~run.routed.found

\* a command on the second numbered post, routed to an adapter that is
\* not the first one
C16_Witness ==
  /\ run.prog = "console"
  /\ run.routed.cmd \in ConsoleCommands
  /\ run.routed.n = 2
  /\ run.routed.found /\ run.routed.ok
  /\ run.routed.on # getPlatform(run.platforms[1])


\* the condition of authenticate()'s first branch: the OAuth 1.0a user
\* context
FullUserContext(config) ==
  config.apiKey /\ config.apiSecret /\ config.accessToken
    /\ config.accessSecret

\* C17: a Twitter adapter holds a read-write client only when all four of
\* apiKey, apiSecret, accessToken and accessSecret are configured, and then
\* it is the user-context client that is also the read client; with one of
\* the four missing and a bearer token present, authenticate() leaves the
\* app-only client and no read-write client, post() and engage() fail with
\* no vendor request issued, and getMe, getFeed and search issue their
\* request and end as the vendor answers.
C17_TwitterReadOnlyFallback ==
  adapter.platform = "twitter" =>
    /\ adapter.readWriteClient =>
         (adapter.client = "user" /\ FullUserContext(adapter.config))
    /\ (~FullUserContext(adapter.config) /\ adapter.config.bearerToken) =>
         /\ last.op = "authenticate" =>
              (adapter.client = "app" /\ ~adapter.readWriteClient)
         /\ last.op \in {"post", "engage"} =>
              (~last.ok /\ last.calls = <<>>)
         /\ (adapter.client = "app"
               /\ last.op \in {"getMe", "getFeed", "search"}) =>
              /\ last.calls # <<>>
              /\ last.ok <=> last.vendor = NoError

\* a post() refused for want of write access after authenticate() returned
\* on the bearer token alone
C17_Witness ==
  /\ adapter.platform = "twitter"
  /\ ~FullUserContext(adapter.config) /\ adapter.config.bearerToken
  /\ authSucceeded /\ adapter.client = "app"
  /\ last.op = "post" /\ ~last.ok /\ last.calls = <<>>
  /\ last.err.message = MsgWriteAccess

\* the characters that are c in another case: its ASCII capital, and for k
\* the Kelvin sign
CaseForms(c) ==
  {c, UpperLetter(c)} \cup (IF c = "k" THEN {KelvinSign} ELSE {})

\* str is the lower-case word but for the case of its characters
EqualIgnoringCase(str, word) ==
  /\ Len(str) = Len(word)
  /\ \A i \in 1..Len(word) : str[i] \in CaseForms(word[i])

C19_NoRequestAfterAFailedOne ==
  last.hitAt > 0 =>
    /\ last.hitAt = Len(last.calls)
    /\ ~last.ok
    /\ last.trail # <<>>
    /\ last.trail[1].in = last.vendor
    /\ last.err = last.trail[Len(last.trail)].out

\* a Twitter post() whose tweet request failed after the media upload went
\* through: the read-back of the tweet is not issued
C19_Witness ==
  /\ adapter.platform = "twitter"
  /\ last.op = "post" /\ ~last.ok
  /\ last.calls = <<"v1.uploadMedia", "v2.tweet">>
  /\ last.hitAt = 2

\* the error carries the 403 class
IsPermissionDenied(e) == e.built = "createError" /\ e.statusCode = JsNum(403)

\* the platform whose settings the message's remediation steps name
RemediationFor(message) ==
  IF Mentions(message, "https://developer.twitter.com/en/portal/projects")
    THEN "twitter"
    ELSE "none"

\* C20: when a request of an operation is answered with 403, on any
\* adapter, the operation throws an error of the 403 class whose message
\* holds the vendor's detail (data.detail, else the first data.errors
\* message) when the payload has one, and remediation steps for the
\* platform of the adapter that threw it.
C20_PermissionDeniedHasDetailAndRemedy ==
  (last.hitAt > 0 /\ VendorStatus(last.vendor) = JsNum(403)) =>
    /\ ~last.ok
    /\ IsPermissionDenied(last.err)
    /\ ErrorDetailOf(last.vendor) # "" =>
         Mentions(last.err.message, ErrorDetailOf(last.vendor))
    /\ RemediationFor(last.err.message) = adapter.platform

\* C21: in every call of Instagram's post(), a publish request comes
\* directly after the container request of the same call, which the vendor
\* answered, and carries the id that answer held; the fetch of the media
\* comes directly after a publish request that the vendor answered, for
\* the id it held; after a container request that failed nothing else is
\* requested.
C21_TwoStepPublishInOrder ==
  run.prog = "publish" =>
    /\ \A i \in 1..Len(run.log) :
         /\ run.log[i].req = "POST /{userId}/media" => i = 1
         /\ run.log[i].req = "POST /{userId}/media_publish" =>
              /\ i = 2
              /\ run.log[1].req = "POST /{userId}/media"
              /\ run.log[1].ok
              /\ run.log[i].param = run.log[1].id
         /\ run.log[i].req = "GET /{mediaId}" =>
              /\ i = 3
              /\ run.log[2].req = "POST /{userId}/media_publish"
              /\ run.log[2].ok
              /\ run.log[i].param = run.log[2].id
         /\ (~run.log[i].ok) => i = Len(run.log)
    /\ (run.log # <<>> /\ ~run.log[1].ok) => Len(run.log) = 1

\* a second post() whose container got another id than the first one's,
\* published and fetched
C21_Witness ==
  /\ run.prog = "publish" /\ run.n = 2
  /\ run.containers = VendorIds
  /\ Len(run.log) >= 3 /\ run.log[3].ok


\* the request of post() that makes the content public on the platform
PublishingRequest(platform) ==
  CASE platform = "twitter" -> "v2.tweet"
    [] platform = "instagram" -> "POST /{userId}/media_publish"
    [] platform = "linkedin" -> "POST /ugcPosts"

\* the vendor answered the publishing request among calls
PublishedBy(platform, calls, hitAt) ==
  \E i \in 1..Len(calls) :
    calls[i] = PublishingRequest(platform) /\ i # hitAt

\* C22: on every adapter, when post() throws, the vendor has not answered
\* the publishing request of that call: nothing was published.
C22_FailedPostPublishedNothing ==
  (last.op = "post" /\ ~last.ok) =>
    ~PublishedBy(adapter.platform, last.calls, last.hitAt)

\* C23: when an operation fails because the getMe() it called failed, the
\* error it throws has the message of the error getMe() threw.
C23_ReclassificationKeepsMessage ==
  (~last.ok /\ Len(last.trail) = 2) =>
    last.err.message = last.trail[1].out.message

\* C24: when handleError is given an error that an earlier handleError
\* call made of an error with status 401, 402, 403 or 429, the error it is
\* given carries that status, and the error it throws has the same
\* statusCode and the same platform.
C24_ReclassificationKeepsClass ==
  \A i \in 2..Len(last.trail) :
    \A n \in Classified :
      HasStatus(last.trail[i - 1].in, n) =>
        /\ last.trail[i].in = last.trail[i - 1].out
        /\ last.trail[i].in.statusCode = JsNum(n)
        /\ last.trail[i].out.statusCode = last.trail[i].in.statusCode
        /\ last.trail[i].out.platform = last.trail[i].in.platform
        /\ last.trail[i].out.platform = JsStr(adapter.platform)

\* Twitter's authenticate() failed on a 429 of its getMe(), classified
\* twice
C24_Witness ==
  /\ adapter.platform = "twitter"
  /\ last.op = "authenticate" /\ ~last.ok
  /\ Len(last.trail) = 2
  /\ HasStatus(last.trail[1].in, 429)
  /\ last.err.statusCode = JsNum(429)

\* C25: a like, retweet, reply or quote command that is not rejected as an
\* invalid post number acts on the post the screen last showed under the
\* number it was given.
C25_CommandActsOnDisplayedPost ==
  (/\ run.prog = "console"
   /\ run.routed.cmd \in ConsoleCommands
   /\ run.routed.valid)
    => run.routed.shown = run.routed.seen

\* the viewer has no load in flight
ViewerQuiet == run.prog = "ink" /\ run.pc = "run" /\ run.tasks = <<>>

\* C26: in the viewer, under any interleaving of the first load, the
\* interval's refreshes, 'r' and the toggles, whenever no load is in flight
\* every platform's feed has loading = false and holds the outcome of the
\* load started last for that platform.
C26_FeedHoldsLatestStartedLoad ==
  ViewerQuiet =>
    \A p \in Platform : ~run.feeds[p].loading /\ run.current[p]

\* C27: after any key presses 1 / 2 / 3 activePlatforms holds no platform
\* twice and only platforms with credentials; the key of a platform
\* without credentials changes nothing, the key of a platform with
\* credentials flips that platform's membership and no other.
C27_ToggleFlipsOneMembership ==
  (run.prog = "ink" /\ run.pc = "run") =>
    /\ \A i, j \in 1..Len(run.activePlatforms) :
         run.activePlatforms[i] = run.activePlatforms[j] => i = j
    /\ \A i \in 1..Len(run.activePlatforms) :
         hasCredentials(run.env, run.activePlatforms[i])
    /\ run.pressed.key # "" =>
         \A p \in Platform :
           LET was == togglePlatform_isActive(run.pressed.before, p)
               is == togglePlatform_isActive(run.activePlatforms, p)
           IN  IF p = run.pressed.key /\ run.pressed.credentials
                 THEN is # was
                 ELSE is = was

\* C28: after saveCredentials(p, c), with c holding the required fields
\* of p, getCredentials(p) returns a config with exactly the fields and
\* values of c, whatever was loaded earlier in the process, and
\* getCredentials of every other platform returns what it returned before
\* the save.
C28_SaveThenGetRoundTrips ==
  (run.prog = "store" /\ run.saved.platform # "") =>
    \A q \in Platform :
      storage_getCredentials(run.env, run.file, q) =
        IF q = run.saved.platform
          THEN [isNull |-> FALSE, config |-> run.saved.config]
          ELSE run.others[q]

\* the pair of the k-th tweet call comes before that of the l-th
PairBefore(log, k, l) ==
  \/ log[k].i < log[l].i
  \/ log[k].i = log[l].i /\ log[k].batchIndex < log[l].batchIndex

\* the tweet calls so far are in order: after a 429 the same pair again,
\* after any other answer a later pair; no pair posted twice
QuoteInOrder ==
  run.prog = "quote" =>
    /\ \A k \in 1..(Len(run.log) - 1) :
         IF run.log[k].code = JsNum(429)
           THEN /\ run.log[k + 1].i = run.log[k].i
                /\ run.log[k + 1].batchIndex = run.log[k].batchIndex
           ELSE PairBefore(run.log, k, k + 1)
    /\ \A k, l \in 1..Len(run.log) :
         (/\ run.log[k].ok /\ run.log[l].ok
          /\ run.log[k].i = run.log[l].i
          /\ run.log[k].batchIndex = run.log[l].batchIndex) => k = l
    /\ run.quoteCount = Cardinality({k \in 1..Len(run.log) : run.log[k].ok})
    /\ run.pc = "delay" /\ run.log[Len(run.log)].code = JsNum(429) =>
         run.resume = run.log[Len(run.log)].batchIndex

\* C29: the quote loop takes the (reply, batch) pairs in order and posts at
\* most one quote tweet per pair; a pair answered with 429 is tried again
\* before any later pair, a pair that fails otherwise is not tried again;
\* and the run ends once the 429 answers have stopped.
C29_QuoteLoopInOrderAndEnds ==
  []QuoteInOrder /\ <>(run.pc \in {"done", "exit"})

\* a pair was answered with 429, tried again and posted, and a later pair
\* failed otherwise; the run is over
C29_Witness ==
  /\ run.prog = "quote" /\ run.pc = "done" /\ Len(run.log) >= 3
  /\ \E k \in 1..(Len(run.log) - 2) :
       /\ run.log[k].code = JsNum(429)
       /\ run.log[k + 1].ok
       /\ ~run.log[k + 2].ok /\ run.log[k + 2].code # JsNum(429)

\* a request carries a parameter: present at all when literal, else with a
\* value that is not empty
Carries(param, literal) ==
  IF literal THEN param # Undefined ELSE Truthy(param)

\* an event that is to settle the promise
Decisive(event, literal) ==
  \/ event.kind = "timeout"
  \/ Carries(event.error, literal)
  \/ Carries(event.code, literal)

\* what an event is to settle the promise with
SettlesWith(event, literal) ==
  IF event.kind = "timeout" THEN OAuthTimeoutError
  ELSE IF Carries(event.error, literal) THEN OAuthError(event.error)
  ELSE OAuthCode(event.code)

\* the promise and the server are as the first decisive event left them
SettledByFirst(literal) ==
  run.prog = "oauth" =>
    LET decisive == {k \in 1..Len(run.log) : Decisive(run.log[k], literal)}
    IN  IF decisive = {}
          THEN run.promise = Pending /\ run.listening
          ELSE /\ ~run.listening
               /\ run.promise =
                    SettlesWith(run.log[CHOOSE k \in decisive :
                                          \A l \in decisive : k <= l],
                                literal)

\* C30 as written: the promise of the callback server is settled once, by
\* the first request that carries an error parameter (rejected, even when
\* it carries a code too) or a code and no error (resolved with that code),
\* or by the timeout; requests with neither leave it pending and the server
\* listening; the server is closed once it is settled, and it is settled in
\* the end.
C30_SettledByFirstCallback ==
  []SettledByFirst(TRUE) /\ <>(run.promise.state # "pending")

\* C30 amended: the same, a parameter counting only when its value is not
\* empty: a request whose error and code are absent or empty is answered
\* 404 and settles nothing.
C30_SettledByFirstNonEmptyCallback ==
  []SettledByFirst(FALSE) /\ <>(run.promise.state # "pending")

\* C30 witness: a request with neither parameter was answered 404, the next
\* one carried an error and a code and rejected the promise, and a later
\* request carrying only a code was answered 200 and changed nothing.
C30_Witness ==
  /\ run.prog = "oauth" /\ Len(run.log) = 3
  /\ run.log[1].kind = "request"
  /\ ~Truthy(run.log[1].code) /\ ~Truthy(run.log[1].error)
  /\ run.log[2].kind = "request"
  /\ Truthy(run.log[2].code) /\ Truthy(run.log[2].error)
  /\ run.log[3].kind = "request"
  /\ Truthy(run.log[3].code) /\ ~Truthy(run.log[3].error)
  /\ run.status = 200
  /\ run.promise = OAuthError(run.log[2].error)
  /\ ~run.listening

====
